---- MODULE Spec2Model ----
(***************************************************************************)
(* Delivery-fee quoting of site1-backend: the postcode normaliser and      *)
(* validator, the postcode-prefix and distance-band rule providers and the *)
(* quoteDelivery orchestrator, in the database-backed variant and in the   *)
(* seed-file variant (src/src/services/delivery.js).                       *)
(*                                                                         *)
(* Representation.  A JavaScript string is a sequence of one-character     *)
(* strings.  A JavaScript number is a record [k, v]: k = "num" with the    *)
(* value v, k = "NaN", or k = "undef" for a missing property.  Money is    *)
(* counted in fixed point: an amount in pounds is v thousandths of a       *)
(* pound, an amount in pence is v tenths of a penny, so that 2.30 GBP is   *)
(* 2300 and 230 pence is 2300 as well.  Distances: a route length is       *)
(* counted in millimetres, a configured distance in tenths of a mile.       *)
(* Floating-point rounding error of the arithmetic is not modelled.        *)
(*                                                                         *)
(* Store hours: the handlers GET /api/store/is-open, collection-times and  *)
(* delivery-times of src/unnamed/part_006.  A time of day "HH:MM" is the   *)
(* number of minutes since midnight: strings of that fixed width compare   *)
(* as their minutes do.  A date is a day number whose remainder by 7 is    *)
(* its weekday.  The clock (ukTime) is an input of each request.           *)
(***************************************************************************)
EXTENDS Integers, Sequences, FiniteSets, TLC

VARIABLES variant, req, phase, calls, storeConfig, customerCoord, meters, distanceMiles, result,
          server, handler, ukTime, targetDate, step, timeSettings, hours, holidays, reply,
          activeRuleType, switchStep, switchBody, switchReply,
          cartBuild, cartObjects, carts, adds,
          users, orders, orderItems, checkout, checkoutCount

\* the state of a delivery quote
quoteVars ==
  <<variant, req, phase, calls, storeConfig, customerCoord, meters, distanceMiles, result>>
\* the state of a store-hours request
hoursVars ==
  <<server, handler, ukTime, targetDate, step, timeSettings, hours, holidays, reply>>

\* the stored active rule type and the state of a switch-rule-type request
adminVars == <<activeRuleType, switchStep, switchBody, switchReply>>

\* the in-memory carts and the add-item requests in flight
cartVars == <<cartBuild, cartObjects, carts, adds>>

\* the tables users, orders and order_items, and the checkout request
checkoutVars == <<users, orders, orderItems, checkout, checkoutCount>>

\* what the requests of one kind leave alone
notQuoteVars == <<hoursVars, adminVars, cartVars, checkoutVars>>
notHoursVars == <<quoteVars, adminVars, cartVars, checkoutVars>>
notAdminVars == <<quoteVars, hoursVars, cartVars, checkoutVars>>
notCartVars == <<quoteVars, hoursVars, adminVars, checkoutVars>>
notCheckoutVars == <<quoteVars, hoursVars, adminVars, cartVars>>

vars == <<quoteVars, hoursVars, adminVars, cartVars, checkoutVars>>

(***************************************************************************)
(* Bounds of the model                                                     *)
(***************************************************************************)
\* longest raw postcode enumerated exhaustively
MaxPostcodeLen == 6
\* longest list of postcode areas, and of distance bands
MaxAreas == 2
\* most opening-hours rows of one weekday
MaxHours == 2
\* most holiday rows of one date
MaxHolidays == 2
\* carts created, and items added over all carts
MaxCarts == 2
MaxItems == 2
\* checkout requests
MaxCheckouts == 2

(***************************************************************************)
(* Strings                                                                 *)
(***************************************************************************)
\* String.prototype.toUpperCase on one character
UpperChar(c) ==
  CASE c = "w" -> "W"
    [] c = "f" -> "F"
    [] c = "p" -> "P"
    [] c = "y" -> "Y"
    [] OTHER -> c

toUpperCase(s) == [i \in 1..Len(s) |-> UpperChar(s[i])]

IsUpperLetter(c) == c \in {"W", "F", "P", "Y"}
IsDigit(c) == c \in {"9", "4"}
\* the class \s
IsSpace(c) == c = " "

\* s.replace(/[^A-Z0-9]/g, '')
RECURSIVE StripNonAlnum(_)
StripNonAlnum(s) ==
  IF s = <<>> THEN <<>>
  ELSE IF IsUpperLetter(Head(s)) \/ IsDigit(Head(s))
       THEN <<Head(s)>> \o StripNonAlnum(Tail(s))
       ELSE StripNonAlnum(Tail(s))

\* String.prototype.startsWith
startsWith(s, p) == Len(p) <= Len(s) /\ SubSeq(s, 1, Len(p)) = p

\* a raw postcode of a request: a string, or null
Str(s) == [isNull |-> FALSE, s |-> s]
NullStr == [isNull |-> TRUE, s |-> <<>>]

\* (raw || '')
OrEmpty(raw) == IF raw.isNull THEN <<>> ELSE raw.s

\* normalizeUkPostcode without the removal of the characters that are not alphanumeric
normalizeUkPostcode_NoStrip(raw) ==
  LET s == toUpperCase(OrEmpty(raw))
  IN IF Len(s) < 5 THEN s
     ELSE SubSeq(s, 1, Len(s) - 3) \o <<" ">> \o SubSeq(s, Len(s) - 2, Len(s))

normalizeUkPostcode(raw) ==
  LET s == StripNonAlnum(toUpperCase(OrEmpty(raw)))
  IN IF Len(s) < 5 THEN s
     ELSE SubSeq(s, 1, Len(s) - 3) \o <<" ">> \o SubSeq(s, Len(s) - 2, Len(s))

\* u matches /^[A-Z]{1,2}[0-9][0-9A-Z]?\s?[0-9][A-Z]{2}$/ from its first to its last
\* character: la letters, a digit, opt optional characters, sp spaces, a digit, two letters
RegexTest(u) ==
  \E la \in {1, 2}, opt \in {0, 1}, sp \in {0, 1} :
    /\ Len(u) = la + 1 + opt + sp + 3
    /\ \A i \in 1..la : IsUpperLetter(u[i])
    /\ IsDigit(u[la + 1])
    /\ opt = 1 => (IsDigit(u[la + 2]) \/ IsUpperLetter(u[la + 2]))
    /\ sp = 1 => IsSpace(u[la + 1 + opt + 1])
    /\ IsDigit(u[la + 1 + opt + sp + 1])
    /\ IsUpperLetter(u[la + 1 + opt + sp + 2])
    /\ IsUpperLetter(u[la + 1 + opt + sp + 3])

\* the pattern without its ^ anchor: some suffix of pc matches
isValidUkPostcodeFormat_NoStartAnchor(pc) ==
  \E n \in 0..Len(pc) : RegexTest(SubSeq(toUpperCase(pc), n + 1, Len(pc)))

isValidUkPostcodeFormat(pc) == RegexTest(toUpperCase(pc))

(***************************************************************************)
(* Numbers                                                                 *)
(***************************************************************************)
Num(n) == [k |-> "num", v |-> n]
NaN == [k |-> "NaN", v |-> 0]
Undef == [k |-> "undef", v |-> 0]

IsNum(x) == x.k = "num"
\* x || 0
OrZero(x) == IF IsNum(x) /\ x.v # 0 THEN x ELSE Num(0)
\* x * 100, pounds to pence: in the fixed point used here v thousandths of a
\* pound are v tenths of a penny; a missing operand gives NaN
Times100(x) == IF IsNum(x) THEN Num(x.v) ELSE NaN
\* x / 100, pence to pounds
Div100(x) == IF IsNum(x) THEN Num(x.v) ELSE NaN
\* Math.round: to the nearest whole penny, halves up
MathRound(x) == IF IsNum(x) THEN Num(((x.v + 5) \div 10) * 10) ELSE NaN
\* a + b
Plus(a, b) == IF IsNum(a) /\ IsNum(b) THEN Num(a.v + b.v) ELSE NaN
\* a <= b in the place of a < b
Lt_OrEqual(a, b) == IsNum(a) /\ IsNum(b) /\ a.v <= b.v
\* a >= b without the equality
Ge_Strict(a, b) == IsNum(a) /\ IsNum(b) /\ a.v > b.v
\* a < b and a >= b: false when an operand is NaN or undefined
Lt(a, b) == IsNum(a) /\ IsNum(b) /\ a.v < b.v
Ge(a, b) == IsNum(a) /\ IsNum(b) /\ a.v >= b.v

\* a whole number of pence
Pence(p) == Num(p * 10)
\* an amount in pounds given in pence (two decimals)
Gbp(p) == Num(p * 10)

(***************************************************************************)
(* Decisions                                                               *)
(***************************************************************************)
Null == "null"

NoZone == [k |-> "null", pattern |-> <<>>, band |-> 0]
PatternZone(p) == [k |-> "pattern", pattern |-> p, band |-> 0]
\* `<= ${band.max_distance}mi`
BandZone(m) == [k |-> "band", pattern |-> <<>>, band |-> m]

Decision(deliverable, fee, minOrder, zone, reason, engine) ==
  [isDeliverable |-> deliverable, feePence |-> fee, minOrderPence |-> minOrder,
   zone |-> zone, reason |-> reason, engine |-> engine]

\* what a call ends with: a returned decision or a thrown exception
NoDecision == Decision(FALSE, Num(0), Num(0), NoZone, Null, "none")
Returned(d) == [k |-> "returned", d |-> d]
Threw == [k |-> "threw", d |-> NoDecision]
\* the call has not ended
Pending == [k |-> "pending", d |-> NoDecision]

(***************************************************************************)
(* Postcode-prefix provider                                                *)
(***************************************************************************)
Area(pattern, fee) == [pattern |-> pattern, fee |-> fee]

PostcodeRules(areas, threshold, extra) ==
  [isNull |-> FALSE, areas |-> areas, default_min_order_threshold |-> threshold,
   default_extra_fee_if_below_threshold |-> extra]
\* the delivery_postcode_rules column holding null
NullPostcodeRules == [isNull |-> TRUE, areas |-> <<>>, default_min_order_threshold |-> Undef,
                      default_extra_fee_if_below_threshold |-> Undef]

RECURSIVE MaxPatternLength(_)
MaxPatternLength(areas) ==
  IF areas = <<>> THEN 0
  ELSE LET m == MaxPatternLength(Tail(areas))
       IN IF Len(Head(areas).pattern) > m THEN Len(Head(areas).pattern) ELSE m

\* the areas of pattern length n in input order, then those of the lengths below n
RECURSIVE SortFromLength(_, _)
SortFromLength(areas, n) ==
  IF n < 0 THEN <<>>
  ELSE SelectSeq(areas, LAMBDA a : Len(a.pattern) = n) \o SortFromLength(areas, n - 1)

\* the areas left in input order
SortByPatternLengthDesc_Unsorted(areas) == areas

\* areas.slice().sort((a, b) => b.pattern.length - a.pattern.length): a stable sort
SortByPatternLengthDesc(areas) == SortFromLength(areas, MaxPatternLength(areas))

\* the index of the first zone whose upper-cased pattern prefixes normalized, or 0
FindMatch(zones, normalized) ==
  LET hits == {i \in 1..Len(zones) : startsWith(normalized, toUpperCase(zones[i].pattern))}
  IN IF hits = {} THEN 0 ELSE CHOOSE i \in hits : \A j \in hits : i <= j

quoteByPostcodePrefix(postcodeRules, postcode, subtotalPence) ==
  LET normalized == normalizeUkPostcode(postcode)
  IN IF ~isValidUkPostcodeFormat(normalized)
     THEN Returned(Decision(FALSE, Num(0), Num(0), NoZone, "Invalid postcode", "postcode"))
     ELSE IF postcodeRules.isNull
     THEN Threw
     ELSE
       LET zones == SortByPatternLengthDesc(postcodeRules.areas)
           m == FindMatch(zones, normalized)
           threshold == postcodeRules.default_min_order_threshold
           extra == postcodeRules.default_extra_fee_if_below_threshold
       IN IF m = 0
          THEN Returned(Decision(FALSE, Num(0), Times100(threshold), NoZone,
                                 "Out of delivery area", "postcode"))
          ELSE
            LET minOrderPence == Times100(OrZero(threshold))
                feeGbp == zones[m].fee
                subtotalGbp == Div100(subtotalPence)
                feePence == MathRound(Times100(feeGbp))
            IN Returned(Decision(TRUE,
                                 IF Lt(subtotalGbp, OrZero(threshold))
                                 THEN Plus(feePence, MathRound(Times100(OrZero(extra))))
                                 ELSE feePence,
                                 minOrderPence, PatternZone(zones[m].pattern), Null, "postcode"))

(***************************************************************************)
(* External routing capability (src/src/lib/mapclient.js)                  *)
(***************************************************************************)
\* metres per mile (1609.344), in millimetres
MmPerMile == 1609344

\* Miles are counted in units of 1/(10 * MmPerMile) mile, in which the quotient
\* meters / 1609.344 and every configured distance are whole numbers.
\* a configured distance of m tenths of a mile
Miles(m) == Num(m * MmPerMile)

\* the value of res.data?.distances?.[0]?.[1]: absent, null, or a number of metres
NoMeters == [k |-> "undef", v |-> 0]
NullMeters == [k |-> "null", v |-> 0]
\* mm millimetres
Meters(mm) == [k |-> "num", v |-> mm]

NullDistance == [k |-> "null", v |-> 0]

\* only a null entry gives null; an absent one is divided like a number
drivingDistanceMiles_NullOnly(m) ==
  IF m.k = "null" THEN NullDistance ELSE IF m.k = "num" THEN Num(m.v * 10) ELSE NaN

\* if (typeof meters !== "number") return null; return meters / 1609.344
drivingDistanceMiles(m) ==
  IF m.k # "num" THEN NullDistance ELSE Num(m.v * 10)

(***************************************************************************)
(* Distance-band provider                                                  *)
(***************************************************************************)
Band(max, gte, lt) == [max_distance |-> max, fee_if_subtotal_gte |-> gte, fee_if_subtotal_lt |-> lt]

DistanceRules(bands, beyond, minOrder) ==
  [isNull |-> FALSE, bands |-> bands, no_service_beyond |-> beyond,
   min_order_threshold_gbp |-> minOrder]
\* the delivery_distance_rules column holding null
NullDistanceRules == [isNull |-> TRUE, bands |-> <<>>, no_service_beyond |-> Undef,
                      min_order_threshold_gbp |-> Undef]

ErrorDecision(engine) ==
  Decision(FALSE, Num(0), Num(0), NoZone, "Error calculating delivery fee", engine)

\* bands.find(b => distance <= b.max_distance): the index of the first such band, or 0
FindBand(bands, distance) ==
  LET hits == {i \in 1..Len(bands) : Ge(bands[i].max_distance, distance)}
  IN IF hits = {} THEN 0 ELSE CHOOSE i \in hits : \A j \in hits : i <= j

\* quoteByDistanceBands of the database-backed variant from the routing result on
\* (lines 82-128), with the catch of lines 129-138 around it
DistanceDecision(distanceRules, distance, subtotalPence) ==
  IF distance.k = "null"
  THEN Decision(FALSE, Num(0), Num(0), NoZone, "Unable to calculate route", "distance")
  ELSE IF distanceRules.isNull
  THEN ErrorDecision("distance")
  ELSE IF Lt(distanceRules.no_service_beyond, distance)
  THEN Decision(FALSE, Num(0), Num(0), NoZone, "Out of delivery range", "distance")
  ELSE
    LET b == FindBand(distanceRules.bands, distance)
    IN IF b = 0
       THEN Decision(FALSE, Num(0), Num(0), NoZone, "Out of delivery range", "distance")
       ELSE
         LET band == distanceRules.bands[b]
             subtotalGbp == Div100(subtotalPence)
             feeGbp == IF Ge(subtotalGbp, Num(0)) THEN band.fee_if_subtotal_gte
                       ELSE band.fee_if_subtotal_lt
         IN Decision(TRUE, MathRound(Times100(feeGbp)), Num(0),
                     BandZone(band.max_distance), Null, "distance")

\* const simulatedMiles = 1.5, in tenths of a mile
simulatedMiles == 15

\* quoteByDistanceBands of the seed-file variant: no geocoding, a stub distance, and
\* a minimum-order threshold taken from the distance or else the postcode section
quoteByDistanceBandsFile(cfg, subtotalPence) ==
  LET db == cfg.delivery_distance_rules
      pp == cfg.delivery_postcode_rules
  IN IF db.isNull THEN Threw
     ELSE
       LET minOrderGbp == OrZero(IF db.min_order_threshold_gbp.k = "num"
                                 THEN db.min_order_threshold_gbp
                                 ELSE IF pp.isNull THEN Undef
                                      ELSE pp.default_min_order_threshold)
           distance == Miles(simulatedMiles)
       IN IF Lt(db.no_service_beyond, distance)
          THEN Returned(Decision(FALSE, Num(0), Times100(minOrderGbp), NoZone,
                                 "Out of delivery range", "distance"))
          ELSE
            LET b == FindBand(db.bands, distance)
            IN IF b = 0
               THEN Returned(Decision(FALSE, Num(0), Times100(minOrderGbp), NoZone,
                                      "Out of delivery range", "distance"))
               ELSE
                 LET band == db.bands[b]
                     subtotalGbp == Div100(subtotalPence)
                     feeGbp == IF Ge(subtotalGbp, minOrderGbp) THEN band.fee_if_subtotal_gte
                               ELSE band.fee_if_subtotal_lt
                 IN Returned(Decision(TRUE, MathRound(Times100(feeGbp)), Times100(minOrderGbp),
                                      BandZone(band.max_distance), Null, "distance"))

(***************************************************************************)
(* Inputs                                                                  *)
(***************************************************************************)
Alphabet == {"w", "F", "9", " "}

\* every raw postcode of at most MaxPostcodeLen characters, and null
RawPostcodes ==
  {NullStr} \cup {Str(s) : s \in UNION {[1..n -> Alphabet] : n \in 0..MaxPostcodeLen}}

\* null, empty, too short, and the format-valid "WF94PY", "wf9 9wf", "w99ww", "F99WW"
SamplePostcodes ==
  {NullStr, Str(<<>>), Str(<<"w", "9">>), Str(<<"W", "F", "9", "4", "P", "Y">>),
   Str(<<"w", "f", "9", " ", "9", "w", "f">>), Str(<<"w", "9", "9", "w", "w">>),
   Str(<<"F", "9", "9", "W", "W">>)}

ValidPostcodes == {p \in SamplePostcodes : isValidUkPostcodeFormat(normalizeUkPostcode(p))}

Addresses == {Str(<<>>), Str(<<"1", " ", "H", "i", "g", "h", " ", "S", "t">>)}

\* subtotals in pence
Subtotals == {Pence(0 - 100), Pence(0), Pence(500), Pence(1000)}

\* "WF9 4" at 2.30, "WF9" at 5.00, "wf9" at 2.306, "W9 9" at 1.00
SampleAreas ==
  {Area(<<"W", "F", "9", " ", "4">>, Gbp(230)), Area(<<"W", "F", "9">>, Gbp(500)),
   Area(<<"w", "f", "9">>, Num(2306)), Area(<<"W", "9", " ", "9">>, Gbp(100))}

AreaLists == UNION {[1..n -> SampleAreas] : n \in 0..MaxAreas}

Thresholds == {Undef, Gbp(0), Gbp(1000)}
ExtraFees == {Undef, Gbp(100)}

AllPostcodeRules ==
  {PostcodeRules(a, t, e) : a \in AreaLists, t \in Thresholds, e \in ExtraFees}

SamplePostcodeRules ==
  {NullPostcodeRules,
   PostcodeRules(<<Area(<<"W", "F", "9">>, Gbp(500)),
                   Area(<<"W", "F", "9", " ", "4">>, Gbp(230))>>, Gbp(1000), Gbp(100)),
   PostcodeRules(<<Area(<<"W", "9", " ", "9">>, Gbp(100))>>, Undef, Undef)}

\* bands of 1, 2 and 3 miles
SampleBands ==
  {Band(Miles(10), Gbp(0), Gbp(100)), Band(Miles(20), Gbp(100), Gbp(200)),
   Band(Miles(30), Num(2004), Gbp(300))}

BandLists == UNION {[1..n -> SampleBands] : n \in 0..MaxAreas}

AllDistanceRules ==
  {DistanceRules(b, n, m) : b \in BandLists, n \in {Miles(10), Miles(30)},
                            m \in {Undef, Gbp(1000)}}

\* the seeded bands; one band reaching less far than the service range
SampleDistanceRules ==
  {NullDistanceRules,
   DistanceRules(<<Band(Miles(10), Gbp(0), Gbp(100)), Band(Miles(20), Gbp(100), Gbp(200)),
                   Band(Miles(30), Gbp(200), Gbp(300))>>, Miles(30), Undef),
   DistanceRules(<<Band(Miles(20), Gbp(150), Gbp(250))>>, Miles(30), Gbp(1000))}

\* route lengths: none, null, 0, 1 mile, just over 1 mile, 1.5, 3 and 3.5 miles
RouteMeters ==
  {NoMeters, NullMeters, Meters(0), Meters(MmPerMile), Meters(MmPerMile + 1),
   Meters(2414016), Meters(3 * MmPerMile), Meters(5632704)}

RuleTypes == {"postcode", "distance", "postcode_prefix", "distance_bands", Null}

StoreConfigs ==
  [delivery_active_rule_type : RuleTypes, delivery_postcode_rules : SamplePostcodeRules,
   delivery_distance_rules : SampleDistanceRules]

NoConfig ==
  [delivery_active_rule_type |-> Null, delivery_postcode_rules |-> NullPostcodeRules,
   delivery_distance_rules |-> NullDistanceRules]

\* what the store_config lookup (or the read of the seed file) ends with
Row(c) == [k |-> "row", row |-> c]
LookupError == [k |-> "error", row |-> NoConfig]
LookupEmpty == [k |-> "empty", row |-> NoConfig]
LookupThrows == [k |-> "throws", row |-> NoConfig]
NoLookup == [k |-> "none", row |-> NoConfig]

LookupOutcomes == {LookupError, LookupEmpty, LookupThrows} \cup {Row(c) : c \in StoreConfigs}

Requests ==
  [mode : {"collection", "delivery"}, postcode : SamplePostcodes, address : Addresses,
   subtotalPence : Subtotals, store : {"default", "shop2"}]

\* requests of the postcode-prefix checks: every raw postcode
PostcodeRequests ==
  [mode : {"delivery"}, postcode : RawPostcodes \cup SamplePostcodes, address : {Str(<<>>)},
   subtotalPence : Subtotals, store : {"default"}]

\* store configurations of the postcode-prefix checks: every list of areas
PostcodeConfigs ==
  [delivery_active_rule_type : {"postcode"}, delivery_postcode_rules : AllPostcodeRules,
   delivery_distance_rules : {NullDistanceRules}]

\* store configurations of the distance-band checks: every list of bands
DistanceConfigs ==
  [delivery_active_rule_type : {"distance", "distance_bands"},
   delivery_postcode_rules : SamplePostcodeRules, delivery_distance_rules : AllDistanceRules]

(***************************************************************************)
(* Store hours: times, rows and replies                                    *)
(***************************************************************************)
MinutesPerDay == 24 * 60
\* the time of day "HH:MM"
Time(h, m) == h * 60 + m
\* a null TIME column
NoTime == Time(0, 0) - 1

\* Date.prototype.setMinutes(getMinutes() + d) followed by toTimeString().slice(0, 5):
\* the time of day d minutes later (earlier for d < 0), whatever day that falls on
AddMinutes(t, d) == (t + d + 2 * MinutesPerDay) % MinutesPerDay

\* new Date(date).getDay()
getDay(date) == date % 7

\* the interval of the slots
SlotStep == 15
\* the defaults of the time settings
DefaultCollectionLeadTime == 15
DefaultDeliveryLeadTime == 45
DefaultBuffer == 15
\* x || d on a number of minutes: 0 and a missing value give the default
OrDefault(x, d) == IF x.k = "num" /\ x.v # 0 THEN x.v ELSE d

\* rows of store_opening_hours and of store_holidays
Entry(day, open, close) ==
  [day_of_week |-> day, open_time |-> open, close_time |-> close, is_closed |-> FALSE]
ClosedEntry(day) ==
  [day_of_week |-> day, open_time |-> NoTime, close_time |-> NoTime, is_closed |-> TRUE]
HolidayRow(date, start, end) == [holiday_date |-> date, start_time |-> start, end_time |-> end]

\* what a query ends with: rows, or an error
QueryRows(rows) == [k |-> "rows", rows |-> rows]
QueryError == [k |-> "error", rows |-> <<>>]
NoQuery == [k |-> "none", rows |-> <<>>]

\* the time settings read from store_config
Settings(lead, buffer) == [k |-> "row", lead_time_minutes |-> lead, buffer_minutes |-> buffer]
SettingsError == [k |-> "error", lead_time_minutes |-> Undef, buffer_minutes |-> Undef]
NoSettings == [k |-> "none", lead_time_minutes |-> Undef, buffer_minutes |-> Undef]

\* replies
NoReply == [k |-> "pending", status |-> 0, isOpen |-> FALSE, reason |-> Null, availableTimes |-> <<>>]
IsOpenReply(isOpen, reason) ==
  [k |-> "isOpen", status |-> 200, isOpen |-> isOpen, reason |-> reason, availableTimes |-> <<>>]
TimesReply(availableTimes, reason) ==
  [k |-> "times", status |-> 200, isOpen |-> FALSE, reason |-> reason,
   availableTimes |-> availableTimes]
ErrorReply(status, error) ==
  [k |-> "error", status |-> status, isOpen |-> FALSE, reason |-> error, availableTimes |-> <<>>]

\* InHolidayTime with the end of the window left out
InHolidayTime_EndExcluded(holiday, t) == t >= holiday.start_time /\ t < holiday.end_time

\* currentTime >= holiday.start_time && currentTime <= holiday.end_time
InHolidayTime(holiday, t) == t >= holiday.start_time /\ t <= holiday.end_time

\* the callback of hours.some, without the overnight branch
SlotOpenAt_NoOvernight(slot, currentTime) ==
  IF slot.is_closed THEN FALSE
  ELSE currentTime >= slot.open_time /\ currentTime <= slot.close_time

\* the callback of hours.some: is the store open at currentTime by this row
SlotOpenAt(slot, currentTime) ==
  IF slot.is_closed THEN FALSE
  ELSE IF slot.close_time < slot.open_time
  THEN currentTime >= slot.open_time \/ currentTime <= slot.close_time
  ELSE currentTime >= slot.open_time /\ currentTime <= slot.close_time

\* the reply of is-open once the holiday rows (none) and the hours rows are there
IsOpenByHours(rows, currentTime) ==
  IF rows = <<>> THEN IsOpenReply(FALSE, "No opening hours set")
  ELSE IF \E i \in 1..Len(rows) : SlotOpenAt(rows[i], currentTime)
  THEN IsOpenReply(TRUE, "Open")
  ELSE IsOpenReply(FALSE, "Outside opening hours")

\* the reply of is-open on a date with holiday rows: the first row decides
IsOpenByHoliday(rows, currentTime) ==
  IF InHolidayTime(rows[1], currentTime) THEN IsOpenReply(FALSE, "Holiday")
  ELSE IsOpenReply(TRUE, "Open during holiday period")

\* the while loop: the times from t in steps of SlotStep that are before endSlot and
\* in no holiday row
RECURSIVE SlotLoop(_, _, _)
SlotLoop(t, endSlot, holidayRows) ==
  IF t < endSlot
  THEN (IF \E i \in 1..Len(holidayRows) : InHolidayTime(holidayRows[i], t)
        THEN <<>> ELSE <<t>>) \o SlotLoop(t + SlotStep, endSlot, holidayRows)
  ELSE <<>>

\* the body of hours.forEach for one row
SlotTimes(slot, holidayRows, isToday, now, leadTimeMinutes, bufferMinutes) ==
  IF slot.is_closed THEN <<>>
  ELSE
    LET leadTimeStr == AddMinutes(now, leadTimeMinutes)
        startTime == IF isToday /\ leadTimeStr > slot.open_time THEN leadTimeStr
                     ELSE slot.open_time
        adjustedEndTime == AddMinutes(slot.close_time, 0 - bufferMinutes)
    IN SlotLoop(startTime, adjustedEndTime, holidayRows)

\* hours.forEach: the available times of all rows, in the order of the rows
RECURSIVE AvailableTimes(_, _, _, _, _, _)
AvailableTimes(rows, holidayRows, isToday, now, leadTimeMinutes, bufferMinutes) ==
  IF rows = <<>> THEN <<>>
  ELSE SlotTimes(Head(rows), holidayRows, isToday, now, leadTimeMinutes, bufferMinutes)
       \o AvailableTimes(Tail(rows), holidayRows, isToday, now, leadTimeMinutes, bufferMinutes)

(***************************************************************************)
(* Store hours: inputs                                                     *)
(***************************************************************************)
\* a Friday and a Saturday
Dates == {5, 6}
\* 00:00, 11:50, 12:00, 12:30, 14:30, 15:00, 15:01, 16:00, 23:30, 23:50
ClockTimes ==
  {Time(0, 0), Time(11, 50), Time(12, 0), Time(12, 30), Time(14, 30), Time(15, 0),
   Time(15, 1), Time(16, 0), Time(23, 30), Time(23, 50)}
Clocks == [date : Dates, time : ClockTimes]

\* lunch, dinner, an evening that ends at midnight, a closed row
SampleEntries(day) ==
  {Entry(day, Time(12, 0), Time(15, 0)), Entry(day, Time(17, 0), Time(23, 0)),
   Entry(day, Time(16, 0), Time(0, 0)), ClosedEntry(day)}

\* .order('open_time'): ascending, a null open_time last
OrderKey(slot) == IF slot.open_time = NoTime THEN MinutesPerDay ELSE slot.open_time
OrderedByOpenTime(rows) ==
  \A i, j \in 1..Len(rows) : i < j => OrderKey(rows[i]) <= OrderKey(rows[j])

\* what the opening-hours query can return for a weekday
HoursRows(day) ==
  {rows \in UNION {[1..n -> SampleEntries(day)] : n \in 0..MaxHours} : OrderedByOpenTime(rows)}
HoursOutcomes(day) == {QueryError} \cup {QueryRows(rows) : rows \in HoursRows(day)}

\* most of the day, the lunch hour, the last hour
SampleHolidays(date) ==
  {HolidayRow(date, Time(8, 0), Time(22, 0)), HolidayRow(date, Time(12, 0), Time(13, 0)),
   HolidayRow(date, Time(23, 0), Time(23, 59))}

\* what the holidays query can return for a date: the rows in any order
HolidayRowLists(date) == UNION {[1..n -> SampleHolidays(date)] : n \in 0..MaxHolidays}
HolidayOutcomes(date) == {QueryError} \cup {QueryRows(rows) : rows \in HolidayRowLists(date)}

\* configured minutes: missing, 0, 30
MinuteSettings == {Undef, Num(0), Num(30)}
SettingsOutcomes ==
  {SettingsError} \cup {Settings(l, b) : l \in MinuteSettings, b \in MinuteSettings}

(***************************************************************************)
(* Carts: pure part                                                        *)
(***************************************************************************)
\* a * b; a qty that is no number gives NaN
Mul(a, b) == IF IsNum(a) /\ IsNum(b) THEN Num(a.v * b.v) ELSE NaN

\* a qty that is a text and no number
TextQty == [k |-> "text", v |-> 0]

\* { id, items: [], subtotalPence: 0 }
EmptyCart(id) == [id |-> id, items |-> <<>>, subtotalPence |-> Num(0)]
\* { itemId, qty, unitPrice, modifiers }
CartItem(itemId, qty, unitPrice, modifiers) ==
  [itemId |-> itemId, qty |-> qty, unitPrice |-> unitPrice, modifiers |-> modifiers]

\* modifiers of a request body: an array of modifiers, each with its
\* priceDeltaPence, or a value that is no array
Modifiers(deltas) == [k |-> "array", deltas |-> deltas]
NotAnArray == [k |-> "other", deltas |-> <<>>]

\* modifiers.reduce((sum, m) => sum + (m.priceDeltaPence || 0), 0)
RECURSIVE modSumFrom(_, _)
modSumFrom(deltas, sum) ==
  IF deltas = <<>> THEN sum
  ELSE modSumFrom(Tail(deltas), Plus(sum, OrZero(Head(deltas))))

modSum(modifiers) == modSumFrom(modifiers.deltas, Num(0))

\* qty = 1 when the body gives none
QtyOrDefault(qty) == IF qty.k = "undef" THEN Num(1) ELSE qty

\* cart.items.push(...) without cart.subtotalPence += unitPrice * qty
PushItem_NoSubtotal(cart, itemId, qty, price, modifiers) ==
  LET unitPrice == Plus(price, modSum(modifiers))
  IN [cart EXCEPT !.items = Append(@, CartItem(itemId, qty, unitPrice, modifiers))]

\* cart.items.push(...); cart.subtotalPence += unitPrice * qty
PushItem(cart, itemId, qty, price, modifiers) ==
  LET unitPrice == Plus(price, modSum(modifiers))
  IN [cart EXCEPT !.items = Append(@, CartItem(itemId, qty, unitPrice, modifiers)),
                  !.subtotalPence = Plus(@, Mul(unitPrice, qty))]

\* the menu: rows of menu_items, and the items of the menu file
MenuItems ==
  {[id |-> "rice", price_pence |-> Pence(450), is_available |-> TRUE],
   [id |-> "soup", price_pence |-> Pence(300), is_available |-> FALSE]}

\* .eq('id', itemId).eq('is_available', true).single(): the row, or none
AvailableItems(itemId) == {r \in MenuItems : r.id = itemId /\ r.is_available}
\* menuData.categories.flatMap(cat => cat.items).find(it => it.id === itemId)
FileItems(itemId) == {r \in MenuItems : r.id = itemId}

\* ids that Math.random().toString(36).slice(2) gives
CartIds == {"a", "b"}
\* no cart under an id
NoCart == 0
\* two add-item requests can be in flight
Slots == {1, 2}

\* the body of an add-item request
AddBody(itemId, qty, modifiers) == [itemId |-> itemId, qty |-> qty, modifiers |-> modifiers]
NoAddBody == AddBody(Null, Undef, Modifiers(<<>>))
\* an add-item request: where it is, the cart object it holds, its body while the
\* handler runs, and the status of its reply
AddRequest(at, cart, body, status) ==
  [step |-> at, cart |-> cart, body |-> body, status |-> status]
IdleAdd == AddRequest("idle", NoCart, NoAddBody, 0)

\* items over all cart objects
RECURSIVE ItemsIn(_)
ItemsIn(objects) ==
  IF objects = <<>> THEN 0 ELSE Len(Head(objects).items) + ItemsIn(Tail(objects))

(***************************************************************************)
(* Checkout: pure part                                                     *)
(***************************************************************************)
\* /^[^\s@]+@[^\s@]+\.[^\s@]+$/.test(email): one @ with text before it, and after
\* it text with a dot that has text on both sides; no space anywhere
isValidEmail(email) ==
  \E at \in 2..Len(email) :
    /\ email[at] = "@"
    /\ \A i \in 1..Len(email) : i # at => (email[i] # "@" /\ ~IsSpace(email[i]))
    /\ \E dot \in (at + 2)..(Len(email) - 1) : email[dot] = "."

\* password && password.length >= 6
isValidPassword(password) == password # <<>> /\ Len(password) >= 6

\* texts of the checkout samples
AnnEmail == <<"a", "@", "x", ".", "y">>
BobEmail == <<"b", "@", "x", ".", "y">>
BadEmail == <<"b", "@", "x">>
GoodPassword == <<"s", "e", "c", "r", "e", "t">>
ShortPassword == <<"s", "h", "o", "r", "t">>
NoText == <<>>

\* a row of users; bcrypt.compare succeeds on the password that was hashed
UserRow(email, password) == [email |-> email, password |-> password]
\* the user that is registered before the requests
StoredUsers == {UserRow(AnnEmail, GoodPassword)}
NoUser == <<>>

\* guestData, loginData or registerData
CheckoutData(firstName, email, telephone, password, passwordConfirm, addressGiven) ==
  [given |-> TRUE, firstName |-> firstName, email |-> email, telephone |-> telephone,
   password |-> password, passwordConfirm |-> passwordConfirm,
   addressGiven |-> addressGiven]
NoCheckoutData ==
  [given |-> FALSE, firstName |-> NoText, email |-> NoText, telephone |-> NoText,
   password |-> NoText, passwordConfirm |-> NoText, addressGiven |-> FALSE]

\* the body of a checkout request; cartItems is "none" (no array), "empty",
\* "items", or "nullItem" (an array with null in it)
CheckoutBody(checkoutMethod, mode, cartItems, data) ==
  [checkoutMethod |-> checkoutMethod, mode |-> mode, cartItems |-> cartItems, data |-> data]
NoCheckoutBody == CheckoutBody("none", "collection", "none", NoCheckoutData)

\* the checkout request: where it is, its body, its user, its order id, its reply
Checkout(at, body, user, orderId, status) ==
  [step |-> at, body |-> body, user |-> user, orderId |-> orderId, status |-> status]
IdleCheckout == Checkout("idle", NoCheckoutBody, NoUser, 0, 0)

\* the validations of the guest branch pass
GuestDataValid(b) ==
  /\ b.data.given /\ b.data.firstName # NoText /\ b.data.email # NoText
  /\ b.data.telephone # NoText
  /\ b.mode = "delivery" => b.data.addressGiven

\* the validation of the login branch passes
LoginDataValid(b) == b.data.given /\ b.data.email # NoText /\ b.data.password # NoText

\* the validations of the register branch pass
RegisterDataValid(b) ==
  /\ b.data.given /\ b.data.firstName # NoText /\ b.data.email # NoText
  /\ b.data.telephone # NoText /\ b.data.password # NoText
  /\ b.data.passwordConfirm # NoText
  /\ b.mode = "delivery" => b.data.addressGiven
  /\ isValidEmail(b.data.email)
  /\ isValidPassword(b.data.password)
  /\ b.data.password = b.data.passwordConfirm

\* the step after the synchronous validations: a reply of 400, or the first query
AfterValidation(b) ==
  IF b.cartItems \in {"none", "empty"} THEN "invalid"
  ELSE IF b.checkoutMethod = "guest"
  THEN IF GuestDataValid(b) THEN "awaitOrder" ELSE "invalid"
  ELSE IF b.checkoutMethod = "login"
  THEN IF LoginDataValid(b) THEN "awaitLoginUser" ELSE "invalid"
  ELSE IF b.checkoutMethod = "register"
  THEN IF RegisterDataValid(b) THEN "awaitExistingUser" ELSE "invalid"
  ELSE "invalid"

(***************************************************************************)
(* quoteDelivery, database-backed variant: one action per stretch of code  *)
(* between two awaits                                                      *)
(***************************************************************************)
Call(fn, query) == [fn |-> fn, query |-> query]

NoDistance == [k |-> "none", v |-> 0]
NoResponse == [k |-> "none", v |-> 0]
\* the routing request threw
ThrownResponse == [k |-> "throws", v |-> 0]

CollectionDecision == Decision(TRUE, Num(0), Num(0), NoZone, Null, "collection")

\* the catch of quoteDelivery (lines 198-207)
Absorb(outcome) == IF outcome.k = "threw" THEN Returned(ErrorDecision("error")) ELSE outcome

\* postcode || address
GeocodeQuery_PostcodeFirst(r) ==
  IF ~r.postcode.isNull /\ r.postcode.s # <<>> THEN r.postcode ELSE r.address

\* address || postcode
GeocodeQuery(r) == IF ~r.address.isNull /\ r.address.s # <<>> THEN r.address ELSE r.postcode

IdleRequest ==
  [mode |-> "collection", postcode |-> NullStr, address |-> NullStr,
   subtotalPence |-> Pence(0), store |-> "default"]

IdleClock == [date |-> 0, time |-> 0]

\* the body of a switch-rule-type request, and its reply
SwitchBody(ruleType, storeId) == [ruleType |-> ruleType, storeId |-> storeId]
NoSwitchBody == SwitchBody(Null, "default")
SwitchReply(status, activeType) == [status |-> status, activeRuleType |-> activeType]
NoSwitchReply == SwitchReply(0, Null)

\* the two server files that have the store-hours handlers
Servers == {"part_005", "part_006"}

\* no request is in progress
Init ==
  /\ variant = "db"
  /\ req = IdleRequest
  /\ phase = "idle"
  /\ calls = <<>>
  /\ storeConfig = NoLookup
  /\ customerCoord = "none"
  /\ meters = NoResponse
  /\ distanceMiles = NoDistance
  /\ result = Pending
  /\ server = "none"
  /\ handler = "none"
  /\ ukTime = IdleClock
  /\ targetDate = 0
  /\ step = "idle"
  /\ timeSettings = NoSettings
  /\ hours = NoQuery
  /\ holidays = NoQuery
  /\ reply = NoReply
  /\ activeRuleType = "postcode"
  /\ switchStep = "idle"
  /\ switchBody = NoSwitchBody
  /\ switchReply = NoSwitchReply
  /\ cartBuild = "none"
  /\ cartObjects = <<>>
  /\ carts = [id \in CartIds |-> NoCart]
  /\ adds = [s \in Slots |-> IdleAdd]
  /\ users = StoredUsers
  /\ orders = {}
  /\ orderItems = {}
  /\ checkout = IdleCheckout
  /\ checkoutCount = 0

\* StartQuote with the store_config query sent before the mode is looked at
StartQuote_ConfigFirst(r) ==
  /\ phase = "idle"
  /\ variant' = "db"
  /\ req' = r
  /\ calls' = <<Call("store_config", NullStr)>>
  /\ IF r.mode = "collection"
     THEN /\ result' = Returned(CollectionDecision)
          /\ phase' = "done"
     ELSE /\ result' = result
          /\ phase' = "awaitConfig"
  /\ UNCHANGED <<storeConfig, customerCoord, meters, distanceMiles>>
  /\ UNCHANGED notQuoteVars

\* lines 144-155: the collection short-circuit, else the store_config query is sent
StartQuote(r) ==
  /\ phase = "idle"
  /\ variant' = "db"
  /\ req' = r
  /\ IF r.mode = "collection"
     THEN /\ result' = Returned(CollectionDecision)
          /\ phase' = "done"
          /\ calls' = <<>>
     ELSE /\ result' = result
          /\ phase' = "awaitConfig"
          /\ calls' = <<Call("store_config", NullStr)>>
  /\ UNCHANGED <<storeConfig, customerCoord, meters, distanceMiles>>
  /\ UNCHANGED notQuoteVars

\* ConfigArrives without the not-found test of line 157: an absent row is dispatched on
ConfigArrives_NoNotFoundTest(o) ==
  /\ phase = "awaitConfig"
  /\ storeConfig' = o
  /\ IF o.k = "throws"
     THEN /\ result' = Returned(ErrorDecision("error"))
          /\ phase' = "done"
          /\ calls' = calls
     ELSE IF o.row.delivery_active_rule_type = "postcode"
     THEN /\ result' = Absorb(quoteByPostcodePrefix(o.row.delivery_postcode_rules,
                                                    req.postcode, req.subtotalPence))
          /\ phase' = "done"
          /\ calls' = calls
     ELSE IF o.row.delivery_active_rule_type = "distance"
     THEN /\ result' = result
          /\ phase' = "awaitGeocode"
          /\ calls' = Append(calls, Call("geocode", GeocodeQuery(req)))
     ELSE /\ result' = Returned(Decision(FALSE, Num(0), Num(0), NoZone,
                                         "Invalid delivery rule type", "error"))
          /\ phase' = "done"
          /\ calls' = calls
  /\ UNCHANGED <<variant, req, customerCoord, meters, distanceMiles>>
  /\ UNCHANGED notQuoteVars

\* lines 157-197 up to the geocode request of line 68; o is what the query ends with
ConfigArrives(o) ==
  /\ phase = "awaitConfig"
  /\ storeConfig' = o
  /\ IF o.k = "throws"
     THEN /\ result' = Returned(ErrorDecision("error"))
          /\ phase' = "done"
          /\ calls' = calls
     ELSE IF o.k # "row"
     THEN /\ result' = Returned(Decision(FALSE, Num(0), Num(0), NoZone,
                                         "Store configuration not found", "error"))
          /\ phase' = "done"
          /\ calls' = calls
     ELSE IF o.row.delivery_active_rule_type = "postcode"
     THEN /\ result' = Absorb(quoteByPostcodePrefix(o.row.delivery_postcode_rules,
                                                    req.postcode, req.subtotalPence))
          /\ phase' = "done"
          /\ calls' = calls
     ELSE IF o.row.delivery_active_rule_type = "distance"
     THEN /\ result' = result
          /\ phase' = "awaitGeocode"
          /\ calls' = Append(calls, Call("geocode", GeocodeQuery(req)))
     ELSE /\ result' = Returned(Decision(FALSE, Num(0), Num(0), NoZone,
                                         "Invalid delivery rule type", "error"))
          /\ phase' = "done"
          /\ calls' = calls
  /\ UNCHANGED <<variant, req, customerCoord, meters, distanceMiles>>
  /\ UNCHANGED notQuoteVars

\* lines 68-81: g is what geocodeToCoord ends with: "coord", "null" or "throws"
GeocodeArrives(g) ==
  /\ phase = "awaitGeocode"
  /\ customerCoord' = g
  /\ IF g = "throws"
     THEN /\ result' = Returned(ErrorDecision("distance"))
          /\ phase' = "done"
          /\ calls' = calls
     ELSE IF g = "null"
     THEN /\ result' = Returned(Decision(FALSE, Num(0), Num(0), NoZone,
                                         "Unable to geocode address", "distance"))
          /\ phase' = "done"
          /\ calls' = calls
     ELSE /\ result' = result
          /\ phase' = "awaitRoute"
          /\ calls' = Append(calls, Call("drivingDistance", NullStr))
  /\ UNCHANGED <<variant, req, storeConfig, meters, distanceMiles>>
  /\ UNCHANGED notQuoteVars

\* lines 81-138: the routing request ends with a response whose distance entry is m
RouteArrives(m) ==
  /\ phase = "awaitRoute"
  /\ meters' = m
  /\ distanceMiles' = drivingDistanceMiles(m)
  /\ result' = Returned(DistanceDecision(storeConfig.row.delivery_distance_rules,
                                         drivingDistanceMiles(m), req.subtotalPence))
  /\ phase' = "done"
  /\ UNCHANGED <<variant, req, calls, storeConfig, customerCoord>>
  /\ UNCHANGED notQuoteVars

\* the routing request throws (a timeout, an HTTP error)
RouteThrows ==
  /\ phase = "awaitRoute"
  /\ meters' = ThrownResponse
  /\ result' = Returned(ErrorDecision("distance"))
  /\ phase' = "done"
  /\ UNCHANGED <<variant, req, calls, storeConfig, customerCoord, distanceMiles>>
  /\ UNCHANGED notQuoteVars

(***************************************************************************)
(* quoteDelivery, seed-file variant: synchronous                           *)
(***************************************************************************)
\* src/src/services/delivery.js lines 111-124; o is what reading the seed file gives
quoteDeliveryFile(r, o) ==
  IF r.mode = "collection" THEN Returned(CollectionDecision)
  ELSE IF o.k # "row" THEN Threw
  ELSE IF o.row.delivery_active_rule_type = "postcode_prefix"
  THEN quoteByPostcodePrefix(o.row.delivery_postcode_rules, r.postcode, r.subtotalPence)
  ELSE IF o.row.delivery_active_rule_type = "distance_bands"
  THEN quoteByDistanceBandsFile(o.row, r.subtotalPence)
  ELSE Threw

\* the stub distance, once the seed-file variant reaches its distance provider
FileDistance(r, o) ==
  IF /\ r.mode # "collection"
     /\ o.k = "row"
     /\ o.row.delivery_active_rule_type = "distance_bands"
     /\ ~o.row.delivery_distance_rules.isNull
  THEN Miles(simulatedMiles) ELSE NoDistance

QuoteFile(r, o) ==
  /\ phase = "idle"
  /\ variant' = "file"
  /\ req' = r
  /\ storeConfig' = IF r.mode = "collection" THEN NoLookup ELSE o
  /\ calls' = IF r.mode = "collection" THEN <<>> ELSE <<Call("readFile", NullStr)>>
  /\ distanceMiles' = FileDistance(r, o)
  /\ result' = quoteDeliveryFile(r, o)
  /\ phase' = "done"
  /\ UNCHANGED <<customerCoord, meters>>
  /\ UNCHANGED notQuoteVars

\* the decision is handed to the caller; the next request may start
Finish ==
  /\ phase = "done"
  /\ variant' = "db"
  /\ req' = IdleRequest
  /\ phase' = "idle"
  /\ calls' = <<>>
  /\ storeConfig' = NoLookup
  /\ customerCoord' = "none"
  /\ meters' = NoResponse
  /\ distanceMiles' = NoDistance
  /\ result' = Pending
  /\ UNCHANGED notQuoteVars

FileOutcomes == {LookupThrows} \cup {Row(c) : c \in StoreConfigs}

Next ==
  \/ phase = "idle" /\ \E r \in Requests : StartQuote(r)
  \/ phase = "awaitConfig" /\ \E o \in LookupOutcomes : ConfigArrives(o)
  \/ \E g \in {"coord", "null", "throws"} : GeocodeArrives(g)
  \/ phase = "awaitRoute" /\ \E m \in RouteMeters : RouteArrives(m)
  \/ RouteThrows
  \/ phase = "idle" /\ \E r \in Requests, o \in FileOutcomes : QuoteFile(r, o)
  \/ Finish

Spec == Init /\ [][Next]_vars

\* the postcode-prefix provider on every raw postcode with the sample rules, and on
\* the valid sample postcodes with every list of areas; both variants
NextPostcode ==
  \/ phase = "idle" /\ \E r \in PostcodeRequests : StartQuote(r)
  \/ \E rules \in SamplePostcodeRules :
       ConfigArrives(Row([delivery_active_rule_type |-> "postcode",
                          delivery_postcode_rules |-> rules,
                          delivery_distance_rules |-> NullDistanceRules]))
  \/ /\ phase = "awaitConfig"
     /\ req.postcode \in ValidPostcodes
     /\ \E c \in PostcodeConfigs : ConfigArrives(Row(c))
  \/ /\ phase = "idle"
     /\ \E p \in SamplePostcodes, t \in Subtotals, c \in PostcodeConfigs :
          QuoteFile([mode |-> "delivery", postcode |-> p, address |-> Str(<<>>),
                     subtotalPence |-> t, store |-> "default"],
                    Row([c EXCEPT !.delivery_active_rule_type = "postcode_prefix"]))
  \/ Finish

SpecPostcode == Init /\ [][NextPostcode]_vars

DeliveryRequests == {r \in Requests : r.mode = "delivery"}

\* the distance-band provider on every list of bands; both variants
NextDistance ==
  \/ phase = "idle" /\ \E r \in DeliveryRequests : StartQuote(r)
  \/ phase = "awaitConfig" /\ \E c \in DistanceConfigs : ConfigArrives(Row(c))
  \/ \E g \in {"coord", "null", "throws"} : GeocodeArrives(g)
  \/ phase = "awaitRoute" /\ \E m \in RouteMeters : RouteArrives(m)
  \/ RouteThrows
  \/ phase = "idle" /\ \E r \in DeliveryRequests, c \in DistanceConfigs : QuoteFile(r, Row(c))
  \/ Finish

SpecDistance == Init /\ [][NextDistance]_vars

(***************************************************************************)
(* GET /api/store/is-open: one action per stretch of code between awaits   *)
(***************************************************************************)
\* lines 824-838 (part_005: 413-425): sv is the server file; the clock is read and the holidays of today are asked for
IsOpenStart(sv, now) ==
  /\ step = "idle"
  /\ server' = sv
  /\ handler' = "is-open"
  /\ ukTime' = now
  /\ targetDate' = now.date
  /\ step' = "awaitHolidays"
  /\ UNCHANGED <<timeSettings, hours, holidays, reply>>
  /\ UNCHANGED notHoursVars

\* lines 840-855: o is what the holidays query ends with
IsOpenHolidaysArrive(o) ==
  /\ step = "awaitHolidays"
  /\ handler = "is-open"
  /\ holidays' = o
  /\ IF o.k = "error"
     THEN /\ reply' = ErrorReply(500, "Failed to check store status")
          /\ step' = "done"
     ELSE IF Len(o.rows) > 0
     THEN /\ reply' = IsOpenByHoliday(o.rows, ukTime.time)
          /\ step' = "done"
     ELSE /\ reply' = reply
          /\ step' = "awaitHours"
  /\ UNCHANGED <<server, handler, ukTime, targetDate, timeSettings, hours>>
  /\ UNCHANGED notHoursVars

\* lines 857-887: o is what the opening-hours query ends with
IsOpenHoursArrive(o) ==
  /\ step = "awaitHours"
  /\ handler = "is-open"
  /\ hours' = o
  /\ reply' = IF o.k = "error" THEN ErrorReply(500, "Failed to check store status")
               ELSE IsOpenByHours(o.rows, ukTime.time)
  /\ step' = "done"
  /\ UNCHANGED <<server, handler, ukTime, targetDate, timeSettings, holidays>>
  /\ UNCHANGED notHoursVars

(***************************************************************************)
(* GET /api/store/collection-times and GET /api/store/delivery-times        *)
(***************************************************************************)
FailureMessage(h) ==
  IF h = "collection-times" THEN "Failed to get collection times"
  ELSE "Failed to get delivery times"

\* collection_lead_time_minutes || 15, delivery_lead_time_minutes || 45
DefaultLeadTime(h) ==
  IF h = "collection-times" THEN DefaultCollectionLeadTime ELSE DefaultDeliveryLeadTime

\* the close buffer: part_006 lines 909 and 1011, part_005 line 587; the
\* collection-times handler of part_005 (lines 478-563) reads no buffer and ends
\* the slots at the close time (line 540)
BufferMinutes(sv, h, configured) ==
  IF sv = "part_005" /\ h = "collection-times" THEN 0
  ELSE OrDefault(configured, DefaultBuffer)

\* lines 891-904 and 987-1006: sv is the server file, h is the handler, date the date asked for (today when
\* the request names none), postcodeGiven whether the request has a postcode
TimesStart(sv, h, now, date, postcodeGiven) ==
  /\ step = "idle"
  /\ server' = sv
  /\ handler' = h
  /\ ukTime' = now
  /\ targetDate' = date
  /\ IF h = "delivery-times" /\ ~postcodeGiven
     THEN /\ reply' = ErrorReply(400, "Postcode is required for delivery times")
          /\ step' = "done"
     ELSE /\ reply' = reply
          /\ step' = "awaitSettings"
  /\ UNCHANGED <<timeSettings, hours, holidays>>
  /\ UNCHANGED notHoursVars

\* lines 906-917 and 1008-1019: o is what the store_config query ends with
TimesSettingsArrive(o) ==
  /\ step = "awaitSettings"
  /\ timeSettings' = o
  /\ IF o.k = "error"
     THEN /\ reply' = ErrorReply(500, FailureMessage(handler))
          /\ step' = "done"
     ELSE /\ reply' = reply
          /\ step' = "awaitHours"
  /\ UNCHANGED <<server, handler, ukTime, targetDate, hours, holidays>>
  /\ UNCHANGED notHoursVars

\* lines 919-929 and 1021-1031: o is what the opening-hours query ends with
TimesHoursArrive(o) ==
  /\ step = "awaitHours"
  /\ handler # "is-open"
  /\ hours' = o
  /\ IF o.k = "error"
     THEN /\ reply' = ErrorReply(500, FailureMessage(handler))
          /\ step' = "done"
     ELSE IF Len(o.rows) = 0
     THEN /\ reply' = TimesReply(<<>>, "Closed on this day")
          /\ step' = "done"
     ELSE /\ reply' = reply
          /\ step' = "awaitHolidays"
  /\ UNCHANGED <<server, handler, ukTime, targetDate, timeSettings, holidays>>
  /\ UNCHANGED notHoursVars

\* lines 931-981 and 1033-1085: o is what the holidays query ends with
TimesHolidaysArrive(o) ==
  /\ step = "awaitHolidays"
  /\ handler # "is-open"
  /\ holidays' = o
  /\ reply' = IF o.k = "error" THEN ErrorReply(500, FailureMessage(handler))
               ELSE TimesReply(AvailableTimes(hours.rows, o.rows, targetDate = ukTime.date,
                                              ukTime.time,
                                              OrDefault(timeSettings.lead_time_minutes,
                                                        DefaultLeadTime(handler)),
                                              BufferMinutes(server, handler,
                                                            timeSettings.buffer_minutes)),
                               Null)
  /\ step' = "done"
  /\ UNCHANGED <<server, handler, ukTime, targetDate, timeSettings, hours>>
  /\ UNCHANGED notHoursVars

\* the reply is sent; the next request may start
HoursFinish ==
  /\ step = "done"
  /\ server' = "none"
  /\ handler' = "none"
  /\ ukTime' = IdleClock
  /\ targetDate' = 0
  /\ step' = "idle"
  /\ timeSettings' = NoSettings
  /\ hours' = NoQuery
  /\ holidays' = NoQuery
  /\ reply' = NoReply
  /\ UNCHANGED notHoursVars

NextIsOpen ==
  \/ step = "idle" /\ \E sv \in Servers, now \in Clocks : IsOpenStart(sv, now)
  \/ /\ step = "awaitHolidays"
     /\ \E o \in HolidayOutcomes(targetDate) : IsOpenHolidaysArrive(o)
  \/ /\ step = "awaitHours"
     /\ \E o \in HoursOutcomes(getDay(ukTime.date)) : IsOpenHoursArrive(o)
  \/ HoursFinish

SpecIsOpen == Init /\ [][NextIsOpen]_vars

\* the clock and the date of the slot requests: today at 00:00, 11:50, 12:30, 15:01
\* and 23:50, and the day after (where the time of day plays no part) at 12:30
TimesRequests ==
  {[now |-> c, date |-> c.date] :
     c \in {c \in Clocks : c.time \in {Time(0, 0), Time(11, 50), Time(12, 30), Time(15, 1),
                                       Time(23, 50)}}}
  \cup {[now |-> c, date |-> c.date + 1] : c \in {c \in Clocks : c.time = Time(12, 30)}}

NextTimes ==
  \/ /\ step = "idle"
     /\ \E sv \in Servers, h \in {"collection-times", "delivery-times"}, q \in TimesRequests,
           postcodeGiven \in BOOLEAN : TimesStart(sv, h, q.now, q.date, postcodeGiven)
  \/ step = "awaitSettings" /\ \E o \in SettingsOutcomes : TimesSettingsArrive(o)
  \/ /\ step = "awaitHours"
     /\ \E o \in HoursOutcomes(getDay(targetDate)) : TimesHoursArrive(o)
  \/ /\ step = "awaitHolidays"
     /\ \E o \in HolidayOutcomes(targetDate) : TimesHolidaysArrive(o)
  \/ HoursFinish

SpecTimes == Init /\ [][NextTimes]_vars

(***************************************************************************)
(* POST /api/delivery/switch-rule-type, and delivery quotes that run while *)
(* the active rule type is switched                                        *)
(***************************************************************************)
\* !ruleType || !['postcode', 'distance'].includes(ruleType), negated
ValidRuleType(ruleType) == ruleType # Null /\ ruleType # "" /\ ruleType \in {"postcode", "distance"}

\* part_006 lines 477-490: the body is validated, then the update is sent
SwitchStart(body) ==
  /\ switchStep = "idle"
  /\ switchBody' = body
  /\ IF ~ValidRuleType(body.ruleType)
     THEN /\ switchReply' = SwitchReply(400, Null)
          /\ switchStep' = "done"
     ELSE /\ switchReply' = switchReply
          /\ switchStep' = "awaitUpdate"
  /\ UNCHANGED activeRuleType
  /\ UNCHANGED notAdminVars

\* part_006 lines 486-503: the update of store_config ends; ok is whether the
\* store answers without an error.  .single() gives an error when no row has the
\* store id; the table has the one row 'default'.
SwitchUpdateEnds(ok) ==
  /\ switchStep = "awaitUpdate"
  /\ IF ok /\ switchBody.storeId = "default"
     THEN /\ activeRuleType' = switchBody.ruleType
          /\ switchReply' = SwitchReply(200, switchBody.ruleType)
     ELSE /\ activeRuleType' = activeRuleType
          /\ switchReply' = SwitchReply(500, Null)
  /\ switchStep' = "done"
  /\ UNCHANGED switchBody
  /\ UNCHANGED notAdminVars

\* the reply is sent; the next switch request may start
SwitchFinish ==
  /\ switchStep = "done"
  /\ switchStep' = "idle"
  /\ switchBody' = NoSwitchBody
  /\ switchReply' = NoSwitchReply
  /\ UNCHANGED activeRuleType
  /\ UNCHANGED notAdminVars

\* bodies of switch requests: the two types, the seed file's name of a type, an empty
\* and a missing ruleType; the store of the table and another one
SwitchBodies ==
  {SwitchBody(t, id) : t \in {"postcode", "distance", "postcode_prefix", "", Null},
                       id \in {"default", "shop2"}}

\* delivery quotes of the switch checks
SwitchQuoteRequests ==
  {r \in DeliveryRequests : /\ r.postcode = Str(<<"W", "F", "9", "4", "P", "Y">>)
                            /\ r.address = Str(<<>>)
                            /\ r.store = "default"
                            /\ r.subtotalPence = Pence(500)}

\* configurations that carry the rules of both types, as the seeded store does
ConfiguredStores ==
  {c \in StoreConfigs : ~c.delivery_postcode_rules.isNull /\ ~c.delivery_distance_rules.isNull}

\* the row of store_config as stored: its active rule type is the stored one
StoredConfigs == {c \in ConfiguredStores : c.delivery_active_rule_type = activeRuleType}

\* the seed file of the seed-file variant, which no switch request writes
SeedFileConfigs ==
  {c \in ConfiguredStores : c.delivery_active_rule_type \in {"postcode_prefix", "distance_bands"}}

NextSwitch ==
  \/ switchStep = "idle" /\ \E body \in SwitchBodies : SwitchStart(body)
  \/ \E ok \in BOOLEAN : SwitchUpdateEnds(ok)
  \/ SwitchFinish
  \/ phase = "idle" /\ \E r \in SwitchQuoteRequests : StartQuote(r)
  \/ phase = "awaitConfig" /\ \E c \in StoredConfigs : ConfigArrives(Row(c))
  \/ \E g \in {"coord", "null"} : GeocodeArrives(g)
  \/ phase = "awaitRoute" /\ \E m \in {NullMeters, Meters(MmPerMile)} : RouteArrives(m)
  \/ RouteThrows
  \/ /\ phase = "idle"
     /\ \E r \in SwitchQuoteRequests, c \in SeedFileConfigs : QuoteFile(r, Row(c))
  \/ Finish

SpecSwitch == Init /\ [][NextSwitch]_vars

(***************************************************************************)
(* POST /api/cart/create and POST /api/cart/:id/add                        *)
(***************************************************************************)
\* carts[id] = { id, items: [], subtotalPence: 0 }: a new cart object under the id,
\* in the place of the one that was there
CreateCart(id) ==
  /\ Len(cartObjects) < MaxCarts
  /\ cartObjects' = Append(cartObjects, EmptyCart(id))
  /\ carts' = [carts EXCEPT ![id] = Len(cartObjects) + 1]
  /\ UNCHANGED <<cartBuild, adds>>
  /\ UNCHANGED notCartVars

\* adds in flight that have not answered
AddsWaiting == Cardinality({s \in Slots : adds[s].step = "awaitItem"})

\* part_006 lines 150-165: the cart is read, then the item is asked of menu_items
AddItemStart(s, id, body) ==
  /\ cartBuild \in {"none", "part_006"}
  /\ adds[s].step = "idle"
  /\ ItemsIn(cartObjects) + AddsWaiting < MaxItems
  /\ cartBuild' = "part_006"
  /\ adds' = [adds EXCEPT ![s] =
       IF id \notin CartIds \/ carts[id] = NoCart
       THEN AddRequest("done", NoCart, NoAddBody, 404)
       ELSE AddRequest("awaitItem", carts[id], body, 0)]
  /\ UNCHANGED <<cartObjects, carts>>
  /\ UNCHANGED notCartVars

\* the answer to the item with the cart as it is: the status, and the cart after it
AddItemAnswer(cart, body, rows, thrown) ==
  IF thrown THEN [status |-> 500, cart |-> cart]
  ELSE IF rows = {} THEN [status |-> 400, cart |-> cart]
  ELSE IF body.modifiers.k # "array" THEN [status |-> 500, cart |-> cart]
  ELSE [status |-> 200,
        cart |-> PushItem(cart, body.itemId, QtyOrDefault(body.qty),
                          (CHOOSE r \in rows : TRUE).price_pence, body.modifiers)]

\* part_006 lines 160-182: the lookup ends, with an answer or with an exception
AddItemLookupEnds(s, throws) ==
  /\ adds[s].step = "awaitItem"
  /\ LET a == AddItemAnswer(cartObjects[adds[s].cart], adds[s].body,
                            AvailableItems(adds[s].body.itemId), throws)
     IN /\ cartObjects' = [cartObjects EXCEPT ![adds[s].cart] = a.cart]
        /\ adds' = [adds EXCEPT ![s] = AddRequest("done", adds[s].cart, NoAddBody, a.status)]
  /\ UNCHANGED <<cartBuild, carts>>
  /\ UNCHANGED notCartVars

\* part_004 lines 50-69: the whole handler, with the item found in the menu file
AddItemFile(s, id, body) ==
  /\ cartBuild \in {"none", "part_004"}
  /\ adds[s].step = "idle"
  /\ ItemsIn(cartObjects) < MaxItems
  /\ cartBuild' = "part_004"
  /\ IF id \notin CartIds \/ carts[id] = NoCart
     THEN /\ adds' = [adds EXCEPT ![s] = AddRequest("done", NoCart, NoAddBody, 404)]
          /\ cartObjects' = cartObjects
     ELSE LET a == AddItemAnswer(cartObjects[carts[id]], body, FileItems(body.itemId), FALSE)
          IN /\ cartObjects' = [cartObjects EXCEPT ![carts[id]] = a.cart]
             /\ adds' = [adds EXCEPT ![s] = AddRequest("done", carts[id], NoAddBody, a.status)]
  /\ UNCHANGED carts
  /\ UNCHANGED notCartVars

\* the reply is sent
AddItemFinish(s) ==
  /\ adds[s].step = "done"
  /\ adds' = [adds EXCEPT ![s] = IdleAdd]
  /\ UNCHANGED <<cartBuild, cartObjects, carts>>
  /\ UNCHANGED notCartVars

\* bodies of add-item requests
AddBodies ==
  {AddBody("rice", Undef, Modifiers(<<>>)),
   AddBody("rice", Num(2), Modifiers(<<Pence(50), Undef>>)),
   AddBody("rice", TextQty, NotAnArray),
   AddBody("rice", TextQty, Modifiers(<<>>)),
   AddBody("soup", Num(1), Modifiers(<<>>)),
   NoAddBody}

\* ids in the path of add-item requests
AddressedIds == CartIds \cup {"zz"}

NextCart ==
  \/ \E id \in CartIds : CreateCart(id)
  \/ \E s \in Slots, id \in AddressedIds, body \in AddBodies : AddItemStart(s, id, body)
  \/ \E s \in Slots, throws \in BOOLEAN : AddItemLookupEnds(s, throws)
  \/ \E s \in Slots, id \in AddressedIds, body \in AddBodies : AddItemFile(s, id, body)
  \/ \E s \in Slots : AddItemFinish(s)

SpecCart == Init /\ [][NextCart]_vars

(***************************************************************************)
(* POST /api/checkout                                                      *)
(***************************************************************************)
\* the reply of the request is sent with the status
CheckoutReplies(status) == checkout' = [checkout EXCEPT !.step = "done", !.status = status]

\* the order id is drawn and the insert into orders is sent
CheckoutInsertsOrder(user) ==
  checkout' = [checkout EXCEPT !.step = "awaitOrder", !.user = user,
                               !.orderId = checkoutCount]

\* part_006 lines 197-225 with the validations of the three branches: the
\* reply of 400, or the first query of the branch
CheckoutStart(body) ==
  /\ checkout.step = "idle"
  /\ checkoutCount < MaxCheckouts
  /\ checkoutCount' = checkoutCount + 1
  /\ LET to == AfterValidation(body)
     IN checkout' =
          IF to = "invalid" THEN Checkout("done", body, NoUser, 0, 400)
          ELSE IF to = "awaitOrder" THEN Checkout("awaitOrder", body, NoUser, checkoutCount + 1, 0)
          ELSE Checkout(to, body, NoUser, 0, 0)
  /\ UNCHANGED <<users, orders, orderItems>>
  /\ UNCHANGED notCheckoutVars

\* part_006 lines 263-279: the user of the login is read and the password is
\* compared; either call can throw
CheckoutLoginArrives(throws) ==
  /\ checkout.step = "awaitLoginUser"
  /\ LET found == {u \in users : u.email = checkout.body.data.email}
     IN IF throws THEN CheckoutReplies(500)
        ELSE IF found = {} THEN CheckoutReplies(401)
        ELSE IF (CHOOSE u \in found : TRUE).password # checkout.body.data.password
        THEN CheckoutReplies(401)
        ELSE CheckoutInsertsOrder(checkout.body.data.email)
  /\ UNCHANGED <<users, orders, orderItems, checkoutCount>>
  /\ UNCHANGED notCheckoutVars

\* part_006 lines 320-352: the query for a user with the email ends; o is
\* "answer", "error" (an error other than no row) or "throws"
CheckoutExistingArrives(o) ==
  /\ checkout.step = "awaitExistingUser"
  /\ IF o # "answer" THEN CheckoutReplies(500)
     ELSE IF \E u \in users : u.email = checkout.body.data.email THEN CheckoutReplies(400)
     ELSE checkout' = [checkout EXCEPT !.step = "awaitCreateUser"]
  /\ UNCHANGED <<users, orders, orderItems, checkoutCount>>
  /\ UNCHANGED notCheckoutVars

\* part_006 lines 337-371: the insert into users ends; the order insert follows
CheckoutUserInsertEnds(ok) ==
  /\ checkout.step = "awaitCreateUser"
  /\ IF ok /\ ~\E u \in users : u.email = checkout.body.data.email
     THEN /\ users' = users \cup {UserRow(checkout.body.data.email,
                                            checkout.body.data.password)}
          /\ CheckoutInsertsOrder(checkout.body.data.email)
     ELSE /\ users' = users
          /\ CheckoutReplies(500)
  /\ UNCHANGED <<orders, orderItems, checkoutCount>>
  /\ UNCHANGED notCheckoutVars

\* part_006 lines 380-421: the insert into orders ends; cartItems.map throws on
\* an item that is null; the insert into order_items follows
CheckoutOrderInsertEnds(ok) ==
  /\ checkout.step = "awaitOrder"
  /\ IF ~ok
     THEN /\ orders' = orders
          /\ CheckoutReplies(500)
     ELSE /\ orders' = orders \cup {checkout.orderId}
          /\ IF checkout.body.cartItems = "nullItem"
             THEN CheckoutReplies(500)
             ELSE checkout' = [checkout EXCEPT !.step = "awaitItems"]
  /\ UNCHANGED <<users, orderItems, checkoutCount>>
  /\ UNCHANGED notCheckoutVars

\* the address the confirmation goes to: contact.email
ContactEmail == checkout.body.data.email

\* part_006 lines 419-427: the insert into order_items ends; the confirmation
\* email follows when the contact has an email
CheckoutItemsInsertEnds(ok) ==
  /\ checkout.step = "awaitItems"
  /\ IF ~ok
     THEN /\ orderItems' = orderItems
          /\ CheckoutReplies(500)
     ELSE /\ orderItems' = orderItems \cup {checkout.orderId}
          /\ IF ContactEmail # NoText
             THEN checkout' = [checkout EXCEPT !.step = "awaitEmail"]
             ELSE CheckoutReplies(200)
  /\ UNCHANGED <<users, orders, checkoutCount>>
  /\ UNCHANGED notCheckoutVars

\* part_006 lines 425-469 and email.js lines 50-67: the email is sent, or the
\* service answers success: false, or building the email throws; the
\* handler answers 200 in each case
CheckoutEmailEnds(o) ==
  /\ checkout.step = "awaitEmail"
  /\ o \in {"sent", "failed", "throws"}
  /\ CheckoutReplies(200)
  /\ UNCHANGED <<users, orders, orderItems, checkoutCount>>
  /\ UNCHANGED notCheckoutVars

\* the reply is sent; the next request may start
CheckoutFinish ==
  /\ checkout.step = "done"
  /\ checkout' = IdleCheckout
  /\ UNCHANGED <<users, orders, orderItems, checkoutCount>>
  /\ UNCHANGED notCheckoutVars

\* bodies of checkout requests
GuestData(firstName, email, telephone, addressGiven) ==
  CheckoutData(firstName, email, telephone, NoText, NoText, addressGiven)
LoginData(email, password) ==
  CheckoutData(NoText, email, NoText, password, NoText, FALSE)
RegisterData(email, password, passwordConfirm) ==
  CheckoutData(<<"b">>, email, <<"9">>, password, passwordConfirm, TRUE)

CheckoutBodies ==
  {CheckoutBody("guest", m, c, GuestData(<<"g">>, BobEmail, <<"9">>, a)) :
     m \in {"collection", "delivery"}, c \in {"none", "empty", "items", "nullItem"},
     a \in BOOLEAN}
  \cup {CheckoutBody("guest", "collection", "items", d) :
          d \in {NoCheckoutData, GuestData(<<"g">>, BobEmail, NoText, TRUE)}}
  \cup {CheckoutBody("login", "collection", "items", d) :
          d \in {NoCheckoutData, LoginData(AnnEmail, GoodPassword),
                 LoginData(AnnEmail, ShortPassword), LoginData(BobEmail, GoodPassword),
                 LoginData(AnnEmail, NoText)}}
  \cup {CheckoutBody("register", "delivery", c, RegisterData(e, pw, pc)) :
          c \in {"items", "nullItem"}, e \in {AnnEmail, BobEmail, BadEmail},
          pw \in {GoodPassword, ShortPassword}, pc \in {GoodPassword, ShortPassword}}
  \cup {CheckoutBody("other", "collection", "items", NoCheckoutData)}

NextCheckout ==
  \/ \E body \in CheckoutBodies : CheckoutStart(body)
  \/ \E throws \in BOOLEAN : CheckoutLoginArrives(throws)
  \/ \E o \in {"answer", "error", "throws"} : CheckoutExistingArrives(o)
  \/ \E ok \in BOOLEAN : CheckoutUserInsertEnds(ok)
  \/ \E ok \in BOOLEAN : CheckoutOrderInsertEnds(ok)
  \/ \E ok \in BOOLEAN : CheckoutItemsInsertEnds(ok)
  \/ \E o \in {"sent", "failed", "throws"} : CheckoutEmailEnds(o)
  \/ CheckoutFinish

SpecCheckout == Init /\ [][NextCheckout]_vars

(***************************************************************************)
(* Properties                                                              *)
(***************************************************************************)
Done == phase = "done"

ErrorReason == "Error calculating delivery fee"

\* the active rule type of the loaded configuration is the postcode one
PostcodeMode ==
  /\ storeConfig.k = "row"
  /\ \/ variant = "db" /\ storeConfig.row.delivery_active_rule_type = "postcode"
     \/ variant = "file" /\ storeConfig.row.delivery_active_rule_type = "postcode_prefix"

\* the active rule type of the loaded configuration is the distance one
DistanceMode ==
  /\ storeConfig.k = "row"
  /\ \/ variant = "db" /\ storeConfig.row.delivery_active_rule_type = "distance"
     \/ variant = "file" /\ storeConfig.row.delivery_active_rule_type = "distance_bands"

Normalized == normalizeUkPostcode(req.postcode)
Rules == storeConfig.row.delivery_postcode_rules
Bands == storeConfig.row.delivery_distance_rules

\* the class of a character: letter, digit, space, other
CharClass(c) ==
  IF UpperChar(c) \in {"W", "F", "P", "Y"} THEN "L"
  ELSE IF c \in {"9", "4"} THEN "D"
  ELSE IF c = " " THEN "S" ELSE "?"

\* the UK postcode format as the list of its shapes: an outward code of one or two
\* letters, a digit and at most one more letter or digit, at most one space, and
\* an inward code of a digit and two letters
UkShapes ==
  {out \o sp \o <<"D", "L", "L">> :
     out \in {<<"L", "D">>, <<"L", "D", "D">>, <<"L", "D", "L">>, <<"L", "L", "D">>,
              <<"L", "L", "D", "D">>, <<"L", "L", "D", "L">>},
     sp \in {<<>>, <<"S">>}}

MatchesUkFormat(s) == [i \in 1..Len(s) |-> CharClass(s[i])] \in UkShapes

\* a collaborator threw, or the rule configuration the provider reads is missing
InternalFailure ==
  \/ storeConfig.k = "throws"
  \/ customerCoord = "throws"
  \/ meters.k = "throws"
  \/ PostcodeMode /\ Rules.isNull /\ MatchesUkFormat(Normalized)
  \/ DistanceMode /\ Bands.isNull /\ (variant = "file" \/ meters.k = "num")

\* C1: quoteDelivery never lets an exception escape: every call ends by returning
\* a decision, and when a collaborator threw, that decision is not deliverable and
\* has the reason "Error calculating delivery fee".
C1_NoExceptionEscapes ==
  Done =>
    /\ result.k = "returned"
    /\ InternalFailure => (~result.d.isDeliverable /\ result.d.reason = ErrorReason)

\* C2: a collection request is answered deliverable at fee 0, whatever its
\* postcode, address, subtotal and store id, without loading the store
\* configuration and without a geocode or routing call.
C2_CollectionShortCircuit ==
  req.mode = "collection" =>
    /\ calls = <<>>
    /\ storeConfig = NoLookup
    /\ customerCoord = "none"
    /\ meters = NoResponse
    /\ Done => (result.k = "returned" /\ result.d.isDeliverable /\ result.d.feePence = Num(0))

\* a collection request with a malformed postcode, for another store, is answered
C2_Witness ==
  /\ Done
  /\ variant = "db"
  /\ req.mode = "collection"
  /\ req.postcode = Str(<<"w", "9">>)
  /\ req.store = "shop2"
  /\ req.subtotalPence = Pence(500)
  /\ result.d.isDeliverable

\* whole pence nearest to v tenths of a penny, halves up
RoundPence(v) == ((v + 5) \div 10) * 10
\* a configured amount, 0 when it is not configured
Configured(x) == IF x.k = "num" THEN x.v ELSE 0

\* the postcode provider ran on a format-valid postcode with rules present
ValidPostcodeQuote ==
  Done /\ PostcodeMode /\ MatchesUkFormat(Normalized) /\ ~Rules.isNull

\* area i matches: its upper-cased pattern is a prefix of the normalized postcode
Matches(i) == startsWith(Normalized, toUpperCase(Rules.areas[i].pattern))
\* area i matches and no matching area has a strictly longer pattern
LongestMatch(i) ==
  /\ Matches(i)
  /\ \A j \in 1..Len(Rules.areas) :
       Matches(j) => Len(Rules.areas[j].pattern) <= Len(Rules.areas[i].pattern)

\* C3: in postcode mode a postcode whose normalized form does not match the UK
\* format (empty, null and short ones included) is answered not deliverable,
\* "Invalid postcode", fee 0, whatever the areas and the subtotal.
C3_InvalidPostcode ==
  (Done /\ PostcodeMode /\ ~MatchesUkFormat(Normalized)) =>
    /\ result.k = "returned"
    /\ ~result.d.isDeliverable
    /\ result.d.reason = "Invalid postcode"
    /\ result.d.feePence = Num(0)

\* "9w99ww" has six characters and an invalid form, though its tail "W9 9WW" is valid
C3_Witness ==
  /\ Done
  /\ PostcodeMode
  /\ req.postcode = Str(<<"9", "w", "9", "9", "w", "w">>)
  /\ ~Rules.isNull
  /\ Rules.areas # <<>>
  /\ result.d.reason = "Invalid postcode"

\* C4: in postcode mode, for a valid postcode and areas in any order, the matched
\* area is one whose upper-cased pattern prefixes the normalized postcode and than
\* which no matching area has a strictly longer pattern; zone and fee are its.
C4_LongestPrefixWins ==
  (ValidPostcodeQuote /\ \E i \in 1..Len(Rules.areas) : Matches(i)) =>
    /\ result.k = "returned"
    /\ result.d.isDeliverable
    /\ \E i \in 1..Len(Rules.areas) :
         /\ LongestMatch(i)
         /\ result.d.zone = PatternZone(Rules.areas[i].pattern)
         /\ result.d.feePence.v \in
              {RoundPence(Rules.areas[i].fee.v),
               RoundPence(Rules.areas[i].fee.v)
                 + RoundPence(Configured(Rules.default_extra_fee_if_below_threshold))}

\* areas "WF9" at 5.00 then "WF9 4" at 2.30, postcode "WF94PY": 230 pence
C4_Witness ==
  /\ ValidPostcodeQuote
  /\ variant = "db"
  /\ req.postcode = Str(<<"W", "F", "9", "4", "P", "Y">>)
  /\ Rules.areas = <<Area(<<"W", "F", "9">>, Gbp(500)),
                     Area(<<"W", "F", "9", " ", "4">>, Gbp(230))>>
  /\ req.subtotalPence = Pence(1000)
  /\ result.d.feePence = Pence(230)
  /\ result.d.zone = PatternZone(<<"W", "F", "9", " ", "4">>)

\* C5: on a match feePence = round(fee*100), plus round(extra*100) exactly when
\* subtotalPence/100 < threshold (not when equal); minOrderPence = threshold*100;
\* zone = the matched pattern.  A threshold or extra fee not configured is 0.
C5_FeeAndSurcharge ==
  (ValidPostcodeQuote /\ \E i \in 1..Len(Rules.areas) : Matches(i)) =>
    /\ result.k = "returned"
    /\ \E i \in 1..Len(Rules.areas) :
         /\ LongestMatch(i)
         /\ result.d.zone = PatternZone(Rules.areas[i].pattern)
         /\ result.d.feePence =
              Num(RoundPence(Rules.areas[i].fee.v)
                  + (IF req.subtotalPence.v < Configured(Rules.default_min_order_threshold)
                     THEN RoundPence(Configured(Rules.default_extra_fee_if_below_threshold))
                     ELSE 0))
    /\ result.d.minOrderPence = Num(Configured(Rules.default_min_order_threshold))

\* threshold 10, extra 1, match at 2.30, subtotal 500 pence: 330 pence
C5_Witness ==
  /\ ValidPostcodeQuote
  /\ Rules.default_min_order_threshold = Gbp(1000)
  /\ Rules.default_extra_fee_if_below_threshold = Gbp(100)
  /\ req.subtotalPence = Pence(500)
  /\ result.d.zone = PatternZone(<<"W", "F", "9", " ", "4">>)
  /\ result.d.feePence = Pence(330)
  /\ result.d.minOrderPence = Pence(1000)

\* C6: in postcode mode a valid postcode that no area prefixes is answered not
\* deliverable, "Out of delivery area", fee 0, with minOrderPence the threshold in
\* pence: a non-negative whole number, also when no threshold is configured.
C6_OutOfArea ==
  (ValidPostcodeQuote /\ \A i \in 1..Len(Rules.areas) : ~Matches(i)) =>
    /\ result.k = "returned"
    /\ ~result.d.isDeliverable
    /\ result.d.reason = "Out of delivery area"
    /\ result.d.feePence = Num(0)
    /\ result.d.minOrderPence.k = "num"
    /\ result.d.minOrderPence.v >= 0
    /\ result.d.minOrderPence.v % 10 = 0
    /\ result.d.minOrderPence.v = Configured(Rules.default_min_order_threshold)

\* the request gives an address
AddressGiven == ~req.address.isNull /\ req.address.s # <<>>

\* C7: in distance mode the geocode call comes before any routing call, with the
\* address as query when one is given and else the postcode; when it finds no
\* coordinate the decision is not deliverable, "Unable to geocode address", and
\* routing is not called for that request.
C7_GeocodeBeforeRouting ==
  /\ \A i \in 1..Len(calls) :
       /\ calls[i].fn = "drivingDistance" => \E j \in 1..(i - 1) : calls[j].fn = "geocode"
       /\ calls[i].fn = "geocode" =>
            calls[i].query = IF AddressGiven THEN req.address ELSE req.postcode
  /\ (variant = "db" /\ DistanceMode) => \E i \in 1..Len(calls) : calls[i].fn = "geocode"
  /\ customerCoord = "null" =>
       /\ Done
       /\ result.k = "returned"
       /\ ~result.d.isDeliverable
       /\ result.d.reason = "Unable to geocode address"
       /\ \A i \in 1..Len(calls) : calls[i].fn # "drivingDistance"

\* no address given, a postcode given, and geocoding finds nothing
C7_Witness ==
  /\ Done
  /\ customerCoord = "null"
  /\ ~AddressGiven
  /\ req.postcode = Str(<<"W", "F", "9", "4", "P", "Y">>)
  /\ calls = <<Call("store_config", NullStr), Call("geocode", req.postcode)>>

\* C8: in distance mode, when geocoding succeeded and the routing capability
\* yields no distance (its response holds null, or no entry at all), the decision
\* is not deliverable, "Unable to calculate route", fee 0.
C8_NoRoute ==
  (Done /\ customerCoord = "coord" /\ meters.k \in {"null", "undef"}) =>
    /\ result.k = "returned"
    /\ ~result.d.isDeliverable
    /\ result.d.reason = "Unable to calculate route"
    /\ result.d.feePence = Num(0)

\* the routing response holds no distance entry
C8_Witness ==
  /\ Done
  /\ customerCoord = "coord"
  /\ meters = NoMeters
  /\ ~Bands.isNull
  /\ result.d.reason = "Unable to calculate route"

\* the distance provider resolved a distance and has rules to read
ResolvedDistanceQuote == Done /\ DistanceMode /\ distanceMiles.k = "num" /\ ~Bands.isNull

\* the bands that reach the resolved distance
Reaching == {i \in 1..Len(Bands.bands) : distanceMiles.v <= Bands.bands[i].max_distance.v}
FirstReaching == CHOOSE i \in Reaching : \A j \in Reaching : i <= j

\* C9: with a resolved distance d, d > noServiceBeyond is answered not
\* deliverable, "Out of delivery range"; otherwise the band is the first in
\* sequence with d <= maxDistance (equality selects it; d = noServiceBeyond is in
\* range), and with no such band the answer is the same as out of range.
C9_BandSelection ==
  ResolvedDistanceQuote =>
    /\ result.k = "returned"
    /\ IF distanceMiles.v > Bands.no_service_beyond.v \/ Reaching = {}
       THEN ~result.d.isDeliverable /\ result.d.reason = "Out of delivery range"
       ELSE /\ result.d.isDeliverable
            /\ result.d.zone = BandZone(Bands.bands[FirstReaching].max_distance)
            /\ result.d.feePence.v \in
                 {RoundPence(Bands.bands[FirstReaching].fee_if_subtotal_gte.v),
                  RoundPence(Bands.bands[FirstReaching].fee_if_subtotal_lt.v)}

\* a route of exactly 3 miles, the range and the second band's reach both 3 miles
C9_Witness ==
  /\ ResolvedDistanceQuote
  /\ variant = "db"
  /\ distanceMiles = Miles(30)
  /\ Bands.no_service_beyond = Miles(30)
  /\ Len(Bands.bands) = 2
  /\ Bands.bands[1].max_distance = Miles(20)
  /\ Bands.bands[2].max_distance = Miles(30)
  /\ result.d.isDeliverable
  /\ result.d.zone = BandZone(Miles(30))

\* C10: in distance mode every deliverable decision has feePence =
\* round(band.feeIfSubtotalGte*100) for every subtotal >= 0 (feeIfSubtotalLt is
\* never used) and minOrderPence = 0.
C10_DistanceFee ==
  (ResolvedDistanceQuote /\ result.k = "returned" /\ result.d.isDeliverable
     /\ req.subtotalPence.v >= 0) =>
    /\ Reaching # {}
    /\ result.d.feePence = Num(RoundPence(Bands.bands[FirstReaching].fee_if_subtotal_gte.v))
    /\ result.d.minOrderPence = Num(0)

\* the calls of the quote that reach a geocoding or routing service
MapCalls == {i \in 1..Len(calls) : calls[i].fn \in {"geocode", "drivingDistance"}}

\* C11: a non-collection request whose store_config lookup ends with an error or
\* with no record is answered not deliverable, "Store configuration not found";
\* no rule provider ran (the decision is not a provider's) and no geocode or
\* routing call was made.
C11_StoreConfigNotFound ==
  (req.mode # "collection" /\ storeConfig.k \in {"error", "empty"}) =>
    /\ Done
    /\ result.k = "returned"
    /\ ~result.d.isDeliverable
    /\ result.d.reason = "Store configuration not found"
    /\ result.d.engine \notin {"postcode", "distance"}
    /\ MapCalls = {}
    /\ customerCoord = "none"
    /\ meters = NoResponse
    /\ distanceMiles = NoDistance

\* the lookup for store "shop2" finds no record
C11_Witness ==
  /\ Done
  /\ req.mode = "delivery"
  /\ req.store = "shop2"
  /\ req.postcode = Str(<<"W", "F", "9", "4", "P", "Y">>)
  /\ storeConfig = LookupEmpty
  /\ calls = <<Call("store_config", NullStr)>>
  /\ result.d.reason = "Store configuration not found"

\* C12: a non-collection request whose loaded configuration has an active rule
\* type that the engine does not recognize (a missing one included) is answered
\* not deliverable, "Invalid delivery rule type"; nothing is raised.
C12_InvalidRuleType ==
  (Done /\ req.mode # "collection" /\ storeConfig.k = "row"
     /\ ~PostcodeMode /\ ~DistanceMode) =>
    /\ result.k = "returned"
    /\ ~result.d.isDeliverable
    /\ result.d.reason = "Invalid delivery rule type"

\* the decision of the database-backed distance provider from what it consults:
\* the distance rules, the geocoding and routing outcomes and the subtotal
DistanceOnlyDecision ==
  IF customerCoord = "throws" \/ meters.k = "throws" THEN ErrorDecision("distance")
  ELSE IF customerCoord = "null"
  THEN Decision(FALSE, Num(0), Num(0), NoZone, "Unable to geocode address", "distance")
  ELSE DistanceDecision(Bands, drivingDistanceMiles(meters), req.subtotalPence)

\* the loaded configuration with the postcode rules taken out
WithoutPostcodeRules ==
  [storeConfig.row EXCEPT !.delivery_postcode_rules = NullPostcodeRules]

\* C13: only the active rule set is consulted.  In postcode mode no geocode or
\* routing call is made and the decision is the postcode provider's on the
\* postcode rules alone; in distance mode the decision is the one obtained with
\* the postcode rules taken out and whatever the postcode's form.
C13_OnlyActiveRuleSet ==
  /\ (Done /\ PostcodeMode) =>
       /\ MapCalls = {}
       /\ customerCoord = "none"
       /\ meters = NoResponse
       /\ result \in {quoteByPostcodePrefix(Rules, req.postcode, req.subtotalPence),
                       Absorb(quoteByPostcodePrefix(Rules, req.postcode, req.subtotalPence))}
  /\ (Done /\ DistanceMode /\ variant = "db") => result = Returned(DistanceOnlyDecision)
  /\ (Done /\ DistanceMode /\ variant = "file") =>
       result = quoteByDistanceBandsFile(WithoutPostcodeRules, req.subtotalPence)

\* an is-open request has been answered with a verdict
IsOpenAnswered == handler = "is-open" /\ step = "done" /\ reply.k = "isOpen"

\* the minutes of the day that an opening-hours entry covers, both ends included; an
\* entry that closes before it opens runs to midnight and from midnight to its close
OpenMinutes(entry) ==
  IF entry.close_time < entry.open_time
  THEN (entry.open_time..(MinutesPerDay - 1)) \cup (0..entry.close_time)
  ELSE entry.open_time..entry.close_time

\* some non-closed entry of the current weekday covers the current time
OpenByHours ==
  \E i \in 1..Len(hours.rows) :
    /\ ~hours.rows[i].is_closed
    /\ hours.rows[i].day_of_week = getDay(ukTime.date)
    /\ ukTime.time \in OpenMinutes(hours.rows[i])

\* C14: on a date with no holiday entry is-open reports open exactly when the
\* current time lies within [openTime, closeTime], ends included, of a non-closed
\* entry of the current weekday, an entry with closeTime < openTime being open
\* from openTime to midnight and from midnight to closeTime.
C14_OpenWithinHours ==
  (IsOpenAnswered /\ holidays = QueryRows(<<>>)) =>
    /\ hours.k = "rows"
    /\ reply.isOpen <=> OpenByHours

\* the entry 16:00-00:00 of day 5 at 23:30: open
C14_Witness ==
  /\ IsOpenAnswered
  /\ holidays = QueryRows(<<>>)
  /\ ukTime = [date |-> 5, time |-> Time(23, 30)]
  /\ hours = QueryRows(<<Entry(5, Time(16, 0), Time(0, 0))>>)
  /\ reply.isOpen

\* the minutes of the day inside a holiday window
HolidayMinutes(holiday) == holiday.start_time..holiday.end_time

\* C15: with several holiday entries for today, is-open reports closed whenever
\* the current time lies inside the window of any one of them, in whatever order
\* the entries are returned.
C15_HolidayUnion ==
  (IsOpenAnswered
     /\ \E i \in 1..Len(holidays.rows) : ukTime.time \in HolidayMinutes(holidays.rows[i])) =>
    ~reply.isOpen

\* C16: on a date with a holiday entry, at a time outside the holiday window,
\* is-open decides by the opening hours: open only if a non-closed entry of the
\* weekday covers the time, closed with no entries, only closed entries, or a
\* time outside all entries.
C16_OutsideHolidayWindow ==
  (IsOpenAnswered /\ holidays.rows # <<>>
     /\ \A i \in 1..Len(holidays.rows) : ukTime.time \notin HolidayMinutes(holidays.rows[i])) =>
    /\ hours.k = "rows"
    /\ reply.isOpen <=> OpenByHours

\* the weekday asked about has no entry that is not closed
NoOpenEntry ==
  /\ hours.k = "rows"
  /\ \A i \in 1..Len(hours.rows) : hours.rows[i].is_closed

\* C17: is-open reports closed with the reason "No opening hours set" both when
\* the weekday has no opening-hours entries and when all its entries are closed.
C17_NoOpeningHours ==
  (IsOpenAnswered /\ NoOpenEntry) =>
    /\ ~reply.isOpen
    /\ reply.reason = "No opening hours set"

\* a collection-times or delivery-times request has been answered with times
TimesAnswered ==
  handler \in {"collection-times", "delivery-times"} /\ step = "done" /\ reply.k = "times"

\* C18: collection-times and delivery-times answer with no times and the reason
\* "Closed on this day" whenever the weekday of the date has no non-closed entry:
\* with no entries at all and with only closed entries.
C18_ClosedOnThisDay ==
  (TimesAnswered /\ NoOpenEntry) =>
    /\ reply.availableTimes = <<>>
    /\ reply.reason = "Closed on this day"

\* the steps of SlotStep minutes from first that are before end
Steps(first, end) ==
  [k \in 1..(IF end > first THEN (end - first + SlotStep - 1) \div SlotStep ELSE 0)
     |-> first + SlotStep * (k - 1)]

\* the slots of the entries from the i-th on, for a date that is not today and has no
\* holiday: per non-closed entry the steps t with openTime <= t < closeTime - buffer
RECURSIVE SlotsOfEntries(_, _)
SlotsOfEntries(i, buffer) ==
  IF i > Len(hours.rows) THEN <<>>
  ELSE (IF hours.rows[i].is_closed THEN <<>>
        ELSE Steps(hours.rows[i].open_time, hours.rows[i].close_time - buffer))
       \o SlotsOfEntries(i + 1, buffer)

\* no entry of the rows runs over midnight
DaytimeEntries ==
  \A i \in 1..Len(hours.rows) :
    hours.rows[i].is_closed \/ hours.rows[i].open_time <= hours.rows[i].close_time

\* C19: for a date other than today with no holidays, the slots of an entry are
\* exactly the 15-minute steps t with openTime <= t < closeTime - bufferMinutes,
\* bufferMinutes being the value configured (a configured 0 is no buffer): hours
\* 12:00-15:00 with buffer 0 give 12:00 to 14:45.
C19_SlotsOfEntry ==
  (TimesAnswered /\ targetDate # ukTime.date /\ holidays = QueryRows(<<>>)
     /\ timeSettings.buffer_minutes.k = "num" /\ DaytimeEntries) =>
    reply.availableTimes = SlotsOfEntries(1, timeSettings.buffer_minutes.v)

\* the lead time of the request: the configured one, the default when none is
LeadTime ==
  IF timeSettings.lead_time_minutes.k = "num" THEN timeSettings.lead_time_minutes.v
  ELSE DefaultLeadTime(handler)

\* C20: when the date is today no slot is earlier than now + leadTimeMinutes,
\* whatever the time now is, times late in the day where now + leadTimeMinutes
\* passes midnight included.
C20_LeadTimeRespected ==
  (TimesAnswered /\ targetDate = ukTime.date) =>
    \A i \in 1..Len(reply.availableTimes) :
      reply.availableTimes[i] >= ukTime.time + LeadTime

\* C21: every slot emitted by collection-times and delivery-times lies on a
\* 15-minute boundary (minute 00, 15, 30 or 45), for every date, entry, time now
\* and lead time, today with a lead-adjusted start that is no multiple of 15
\* minutes included.
C21_QuarterHourSlots ==
  TimesAnswered =>
    \A i \in 1..Len(reply.availableTimes) : reply.availableTimes[i] % SlotStep = 0

\* the time t lies in the window of no holiday row of the date
OutsideHolidays(t) ==
  \A i \in 1..Len(holidays.rows) :
    holidays.rows[i].holiday_date = targetDate => t \notin HolidayMinutes(holidays.rows[i])

\* the close buffer and the lead time that the handler applies
AppliedBuffer == BufferMinutes(server, handler, timeSettings.buffer_minutes)
AppliedLeadTime == OrDefault(timeSettings.lead_time_minutes, DefaultLeadTime(handler))

\* the slots of the request had the date no holiday row
SlotsWithoutHolidays ==
  AvailableTimes(hours.rows, <<>>, targetDate = ukTime.date, ukTime.time,
                 AppliedLeadTime, AppliedBuffer)

\* C22: no emitted slot lies in a holiday window [startTime, endTime] of the date,
\* ends included, however many holiday entries there are, in the collection and
\* in the delivery result; and the slots outside all windows are all kept.
C22_HolidaySlotsRemoved ==
  (TimesAnswered /\ holidays.k = "rows") =>
    /\ \A i \in 1..Len(reply.availableTimes) : OutsideHolidays(reply.availableTimes[i])
    /\ reply.availableTimes = SelectSeq(SlotsWithoutHolidays, OutsideHolidays)

\* holidays 12:00-13:00 and 23:00-23:59, lunch 12:00-15:00 asked for tomorrow: the
\* slots start at 13:15, after the window whose end 13:00 is itself a slot time
C22_Witness ==
  /\ TimesAnswered
  /\ handler = "delivery-times"
  /\ server = "part_006"
  /\ targetDate # ukTime.date
  /\ Len(holidays.rows) = 2
  /\ holidays.rows[2] = HolidayRow(targetDate, Time(12, 0), Time(13, 0))
  /\ hours.rows = <<Entry(getDay(targetDate), Time(12, 0), Time(15, 0))>>
  /\ timeSettings.buffer_minutes = Num(30)
  /\ reply.availableTimes =
       <<Time(13, 15), Time(13, 30), Time(13, 45), Time(14, 0), Time(14, 15)>>

\* C23: the sequence of slots is strictly ascending, so without duplicates, for
\* every set of entries of the weekday: several sessions and entries whose
\* ranges overlap included.
C23_SlotsAscending ==
  TimesAnswered =>
    \A i, j \in 1..Len(reply.availableTimes) :
      i < j => reply.availableTimes[i] < reply.availableTimes[j]

\* the close buffer of the request: the one configured for the handler, the default
\* when none is
RequestedBuffer == OrDefault(timeSettings.buffer_minutes, DefaultBuffer)

\* C24: collection and delivery slot generation are one algorithm: the result is
\* the same function of the opening hours, the holidays, the date, the time now
\* and the handler's lead time and buffer, whichever of the two handlers runs.
C24_SharedSlotAlgorithm ==
  (TimesAnswered /\ holidays.k = "rows") =>
    reply.availableTimes =
      AvailableTimes(hours.rows, holidays.rows, targetDate = ukTime.date, ukTime.time,
                     AppliedLeadTime, RequestedBuffer)

\* is the character a letter or a digit
IsAlnum(c) == CharClass(c) \in {"L", "D"}
\* the letters and digits of the raw postcode, upper-cased, in their order
UpperAlnum == toUpperCase(SelectSeq(OrEmpty(req.postcode), IsAlnum))

\* C25: normalize is idempotent on every input with at least 5 alphanumeric
\* characters, and its result is the upper-cased alphanumeric characters of the
\* input with exactly one space, before the final 3 characters.
C25_NormalizeIdempotent ==
  (Done /\ PostcodeMode /\ Len(UpperAlnum) >= 5) =>
    /\ normalizeUkPostcode(Str(Normalized)) = Normalized
    /\ Len(Normalized) = Len(UpperAlnum) + 1
    /\ \A i \in 1..Len(Normalized) :
         Normalized[i] = IF i <= Len(UpperAlnum) - 3 THEN UpperAlnum[i]
                         ELSE IF i = Len(UpperAlnum) - 2 THEN " "
                         ELSE UpperAlnum[i - 1]

\* "w 99ww", lower case with its space misplaced, is quoted as "W9 9WW"
C25_Witness ==
  /\ Done
  /\ PostcodeMode
  /\ req.postcode = Str(<<"w", " ", "9", "9", "w", "w">>)
  /\ Normalized = <<"W", "9", " ", "9", "W", "W">>
  /\ result.k = "returned"
  /\ result.d.zone = PatternZone(<<"W", "9", " ", "9">>)

\* a lookup of the store-hours request failed
LookupFailed == timeSettings.k = "error" \/ hours.k = "error" \/ holidays.k = "error"

\* C26: the store-hours entry points have no fatal error path: when the
\* store-config, opening-hours or holiday lookup fails, is-open still answers
\* with a well-formed {isOpen, reason} and the slot operations with a well-formed
\* sequence of slots, not with a fault.
C26_NoFatalErrorPath ==
  (step = "done" /\ LookupFailed) =>
    /\ reply.status = 200
    /\ reply.k = IF handler = "is-open" THEN "isOpen" ELSE "times"

\* a number of pence that is a whole number and not negative
WholePence(x) == x.k = "num" /\ x.v >= 0 /\ x.v % 10 = 0

\* C27: every decision that quoteDelivery returns, on every path, has reason =
\* null exactly when it is deliverable, feePence = 0 when it is not, and a
\* feePence and a minOrderPence that are whole numbers, not negative.
C27_DecisionWellFormed ==
  (Done /\ result.k = "returned") =>
    /\ (result.d.reason = Null) <=> result.d.isDeliverable
    /\ ~result.d.isDeliverable => result.d.feePence = Num(0)
    /\ WholePence(result.d.feePence)
    /\ WholePence(result.d.minOrderPence)

\* the rule type whose provider computed the decision of the quote
ProviderType(r) ==
  IF r.d.engine \in {"postcode", "distance"} THEN r.d.engine ELSE Null

\* a step in which a delivery quote gets to the provider that computes it
QuoteDispatched ==
  /\ phase \in {"idle", "awaitConfig"}
  /\ phase' \in {"awaitGeocode", "done"}
  /\ req'.mode = "delivery"
  /\ storeConfig'.k = "row"

\* the provider the dispatched quote runs
DispatchedTo ==
  IF phase' = "awaitGeocode" THEN "distance"
  ELSE IF result'.k = "returned" THEN ProviderType(result') ELSE Null

\* the ruleType of the switch request is one of the two types
ValidRuleTypeGiven == switchBody.ruleType \in {"postcode", "distance"}

\* C28: after any sequence of switch requests the stored active rule type is
\* postcode or distance; a request with a missing or other ruleType is rejected
\* and leaves the stored type as it is; the stored type changes only to the type
\* of a successful switch; and every delivery quote is computed by the provider
\* of the type that is stored when the quote is dispatched.
C28_SwitchRuleType ==
  /\ [](activeRuleType \in {"postcode", "distance"})
  /\ [][/\ (switchStep' = "done" /\ ~ValidRuleTypeGiven') =>
            (switchReply'.status = 400 /\ activeRuleType' = activeRuleType)
        /\ activeRuleType' # activeRuleType =>
            (switchReply'.status = 200 /\ activeRuleType' = switchBody.ruleType)
        /\ QuoteDispatched => DispatchedTo = activeRuleType]_vars

\* sum of unitPrice * qty over the items, from the first to the last
RECURSIVE SumOfItems(_, _)
SumOfItems(items, sum) ==
  IF items = <<>> THEN sum
  ELSE SumOfItems(Tail(items), Plus(sum, Mul(Head(items).unitPrice, Head(items).qty)))

\* the add-item request of slot s gets its answer in this step
AddAnswered(s) == adds[s].step # "done" /\ adds'[s].step = "done"

\* each cart's subtotal is the sum over its items
SubtotalIsSum ==
  \A i \in 1..Len(cartObjects) :
    cartObjects[i].subtotalPence = SumOfItems(cartObjects[i].items, Num(0))

\* C29: in every interleaving of create-cart and add-item requests each cart's
\* subtotalPence is the sum of unitPrice * qty over its items; an add-item that
\* fails leaves every cart as it was; and an add-item changes no cart but the one
\* it addressed, to which it appends its one item.
C29_CartConsistency ==
  /\ []SubtotalIsSum
  /\ [][\A s \in Slots :
          AddAnswered(s) =>
            /\ adds'[s].status # 200 => (cartObjects' = cartObjects /\ carts' = carts)
            /\ adds'[s].status = 200 =>
                 /\ carts' = carts
                 /\ Len(cartObjects') = Len(cartObjects)
                 /\ \A i \in 1..Len(cartObjects) :
                      i # adds'[s].cart => cartObjects'[i] = cartObjects[i]
                 /\ Len(cartObjects'[adds'[s].cart].items) =
                      Len(cartObjects[adds'[s].cart].items) + 1]_vars

\* two add-item requests were in flight for one cart and both added their item
C29_Witness ==
  /\ cartBuild = "part_006"
  /\ \A s \in Slots : adds[s].step = "done" /\ adds[s].status = 200
  /\ adds[1].cart = adds[2].cart
  /\ Len(cartObjects[adds[1].cart].items) = 2

\* the checkout request has ended with an error response
CheckoutFailed == checkout.step = "done" /\ checkout.status # 200

\* a row that the request has stored: its order, its order items, its new user
RowsOfRequest ==
  \/ checkout.orderId \in orders
  \/ checkout.orderId \in orderItems
  \/ /\ checkout.body.checkoutMethod = "register"
     /\ checkout.user # NoUser
     /\ \E u \in users : u.email = checkout.user

\* C30: when a checkout request ends with an error response, no order row, no
\* order-item row and no new user row of that request is stored; and the
\* request answers 200 whatever becomes of the confirmation email.
C30_CheckoutAllOrNothing ==
  /\ [](CheckoutFailed => ~RowsOfRequest)
  /\ [][(checkout.step = "awaitEmail" /\ checkout'.step = "done") =>
          checkout'.status = 200]_vars
====
